---------------------------- MODULE Spec2Model ----------------------------
(***************************************************************************)
(* Model of the delivery route optimizer: the job orchestrator             *)
(* (app/routes/optimizer.py), the VRP solver adapter and solution decoder  *)
(* (app/services/vrp_solver.py) and the coordinate optimizer               *)
(* (app/services/coordinate_optimizer.py).                                 *)
(*                                                                         *)
(* Units.  Coordinates are integers in units of 0.01 degree; loads are     *)
(* integers in units of 0.001 kg; distances in km are integers in units    *)
(* of 0.001 km; matrix entries are seconds, travel times are minutes.      *)
(***************************************************************************)
EXTENDS Integers, Sequences, FiniteSets, TLC

(***************************************************************************)
(* Bounds of the model.                                                    *)
(***************************************************************************)
MaxJobs == 1
MaxOrders == 2
MaxVehicles == 2
MaxDbFaults == 2

(***************************************************************************)
(* Program constants.                                                      *)
(***************************************************************************)
MaxOrdersPerOptimization == 100
DefaultDepotLat == 2861
DefaultDepotLng == 7721
MockBaseLat == 2861
MockBaseLng == 7721
MockServiceTimeMinutes == 10
MockLoadKg == 5000
DefaultVehicleCapacityKg == 500000
DefaultMaxRouteDurationMinutes == 480
DefaultMaxStopsPerRoute == 10
MinOfflineSeconds == 60
MaxAttempts == 3
FallbackSpeedKmph == 30
DistanceSlackMax == 1800

\* Python's None and an optional value that is present.  (An optional value
\* is a sequence of length at most one, so that it compares with any other.)
None == <<>>
Some(v) == <<v>>

PENDING == "PENDING"
IN_PROGRESS == "IN_PROGRESS"
COMPLETED == "COMPLETED"
FAILED == "FAILED"
JobStatuses == {PENDING, IN_PROGRESS, COMPLETED, FAILED}
TerminalStatuses == {COMPLETED, FAILED}

\* Job ids are uuid4 values; the model hands out 1, 2, ... and never reuses
\* one.  UnknownJobId is a uuid no job was ever given.
JobIds == 1..MaxJobs
UnknownJobId == MaxJobs + 1
RequestJobIds == JobIds \cup {UnknownJobId}

(***************************************************************************)
(* Sequence helpers.                                                       *)
(***************************************************************************)
Range(s) == {s[i] : i \in DOMAIN s}

RECURSIVE SumSeq(_)
SumSeq(s) == IF s = <<>> THEN 0 ELSE Head(s) + SumSeq(Tail(s))

Abs(a) == IF a < 0 THEN 0 - a ELSE a

Max(a, b) == IF a >= b THEN a ELSE b

\* All orderings of the members of a finite set, as sequences.
RECURSIVE Perms(_)
Perms(S) ==
    IF S = {} THEN {<<>>}
    ELSE UNION {{<<x>> \o p : p \in Perms(S \ {x})} : x \in S}

(***************************************************************************)
(* app/schemas/optimization.py                                             *)
(***************************************************************************)
\* LocationPoint
LocationPoint(order_id, latitude, longitude, service_time_minutes, load_kg) ==
    [order_id |-> order_id, latitude |-> latitude, longitude |-> longitude,
     service_time_minutes |-> service_time_minutes, load_kg |-> load_kg]

\* OptimizationConstraints with the schema's defaults for the fields a
\* request leaves out.
OptimizationConstraints(max_vehicles, vehicle_capacity_kg, optimization_criteria) ==
    [max_vehicles |-> max_vehicles,
     vehicle_capacity_kg |-> vehicle_capacity_kg,
     optimization_criteria |-> optimization_criteria,
     max_route_duration_minutes |-> DefaultMaxRouteDurationMinutes,
     max_stops_per_route |-> DefaultMaxStopsPerRoute]

(***************************************************************************)
(* app/services/traffic_client.py.  The traffic service is an external      *)
(* collaborator: an HTTP request to it either fails in transport (requests *)
(* raises RequestException: None here) or is answered with traffic data.   *)
(***************************************************************************)
\* The dict of a traffic answer; confidence_level in tenths.
TrafficData(current_speed_kmph, free_flow_speed_kmph, congestion_level, confidence_level) ==
    [current_speed_kmph |-> current_speed_kmph,
     free_flow_speed_kmph |-> free_flow_speed_kmph,
     congestion_level |-> congestion_level, confidence_level |-> confidence_level]

\* lines 29-34: the dict returned when the service is unavailable
DefaultTrafficData == TrafficData(50, 60, "LOW", 5)

\* The service is unreachable for every request made at a location.
Unreachable == <<None, None, None>>

\* get_traffic_flow without the except clause: a transport failure is raised
TrafficBodyRaises(answer) ==
    [raised |-> answer = None, value |-> IF answer = None THEN DefaultTrafficData ELSE answer[1]]

\* lines 18-34, one run of the body of get_traffic_flow for what the HTTP
\* request does: the except clause returns the default, nothing is raised.
TrafficBody(answer) ==
    [raised |-> FALSE, value |-> IF answer = None THEN DefaultTrafficData ELSE answer[1]]

\* line 15, @retry(stop=stop_after_attempt(3)): the body is run again while
\* it raises, at most MaxAttempts times; answers[k] is what the k-th HTTP
\* request does.  `attempts` counts the requests made.
RECURSIVE Retrying(_, _)
Retrying(answers, k) ==
    LET r == TrafficBody(answers[k])
    IN  IF r.raised /\ k < MaxAttempts
        THEN Retrying(answers, k + 1)
        ELSE [raised |-> r.raised, value |-> r.value, attempts |-> k]

get_traffic_flow(answers) == Retrying(answers, 1)

\* _calculate_distance (Haversine), in metres, for coordinates in units of
\* 0.01 degree near the latitude of the mock data (28.61 N), where 0.01
\* degree of latitude is 1111.949 m and cos(lat1) * cos(lat2) is 0.77071:
\* the largest d with d^2 <= 1236431 dlat^2 + 952927 dlng^2.  (Within 0.1 %
\* of the Haversine value for the points the model draws.)
_calculate_distance(lat1, lng1, lat2, lng2) ==
    LET a == lat2 - lat1
        b == lng2 - lng1
        x == 1236431 * a * a + 952927 * b * b
        top == 1112 * (Abs(a) + Abs(b))
    IN  CHOOSE d \in 0..top : d * d <= x /\ (d + 1) * (d + 1) > x

\* lines 72-77: the delay multiplier, in tenths
DelayMultiplier(congestion_level) ==
    CASE congestion_level = "LOW" -> 10
      [] congestion_level = "MODERATE" -> 12
      [] congestion_level = "HIGH" -> 15
      [] congestion_level = "SEVERE" -> 20
      [] OTHER -> 10

\* every reported speed below the fallback speed replaced by it
SpeedUsedAtLeastFallback(traffic_data) == Max(traffic_data.current_speed_kmph, FallbackSpeedKmph)

\* lines 63-65: the speed used, only a reported speed of 0 is replaced
SpeedUsed(traffic_data) ==
    IF traffic_data.current_speed_kmph = 0 THEN FallbackSpeedKmph
    ELSE traffic_data.current_speed_kmph

\* calculate_travel_time without the floor of one minute
TravelMinutesWithoutFloor(distance, traffic_data) ==
    LET travel_time_minutes == (3 * distance) \div (50 * SpeedUsed(traffic_data))
    IN  (travel_time_minutes * DelayMultiplier(traffic_data.congestion_level)) \div 10

\* lines 67-79 for a distance in metres: int(distance_km / speed * 60), then
\* max(1, int(minutes * multiplier))
TravelMinutes(distance, traffic_data) ==
    LET travel_time_minutes == (3 * distance) \div (50 * SpeedUsed(traffic_data))
    IN  Max(1, (travel_time_minutes * DelayMultiplier(traffic_data.congestion_level)) \div 10)

\* calculate_travel_time; answers is what the traffic service does for the
\* request at the start point.
calculate_travel_time(start_lat, start_lng, end_lat, end_lng, answers) ==
    TravelMinutes(_calculate_distance(start_lat, start_lng, end_lat, end_lng),
                  get_traffic_flow(answers).value)

(***************************************************************************)
(* app/services/vrp_solver.py: the cost matrix                             *)
(***************************************************************************)
\* int((distance / 50) * 3600) with distance = sqrt(dlat^2 + dlng^2) * 111:
\* for differences a, b in units of 0.01 degree the travel time is
\* floor(79.92 * sqrt(a^2 + b^2)) seconds, the largest k with
\* 625 k^2 <= 3992004 (a^2 + b^2), that is with k^2 <= floor(3992004 x / 625)
\* = 6387 x + floor(129 x / 625).
_euclidean_seconds(a, b) ==
    LET x == a * a + b * b
        q == 6387 * x + ((129 * x) \div 625)
        top == 80 * (Abs(a) + Abs(b))
    IN  CHOOSE k \in 0..top : k * k <= q /\ (k + 1) * (k + 1) > q

\* Locations and matrices are indexed from 0 as in the code; index 0 is the depot.
NumLocations(locations) == Cardinality(DOMAIN locations)

\* the matrix with only the entries above the diagonal filled in
_create_distance_matrix_upper_only(locations, use_traffic, service) ==
    [i \in DOMAIN locations |->
        [j \in DOMAIN locations |->
            IF i >= j THEN 0
            ELSE IF use_traffic
            THEN calculate_travel_time(locations[i].latitude, locations[i].longitude,
                                       locations[j].latitude, locations[j].longitude,
                                       service[i]) * 60
            ELSE Max(MinOfflineSeconds,
                     _euclidean_seconds(locations[i].latitude - locations[j].latitude,
                                        locations[i].longitude - locations[j].longitude))]]

\* service[i] is what the traffic service does for the requests made at
\* location i (read in traffic mode only).
_create_distance_matrix(locations, use_traffic, service) ==
    [i \in DOMAIN locations |->
        [j \in DOMAIN locations |->
            IF i = j THEN 0
            ELSE IF use_traffic
            THEN calculate_travel_time(locations[i].latitude, locations[i].longitude,
                                       locations[j].latitude, locations[j].longitude,
                                       service[i]) * 60
            ELSE Max(MinOfflineSeconds,
                     _euclidean_seconds(locations[i].latitude - locations[j].latitude,
                                        locations[i].longitude - locations[j].longitude))]]

(***************************************************************************)
(* The routing solver (OR-Tools) is an external collaborator.  What it     *)
(* returns is a nondeterministic choice among the outcomes its contract    *)
(* allows: an assignment of every non-depot node to exactly one vehicle    *)
(* that satisfies the dimensions handed to it, no solution, or an internal *)
(* failure.  An assignment is a function from vehicle ids to the sequence  *)
(* of non-depot nodes the vehicle visits.                                  *)
(***************************************************************************)
\* the bound in "time units" whatever the criterion
MaxDistanceTimeUnits(constraints) == constraints.max_route_duration_minutes * 100

\* the upper bound of the 'Distance' dimension
MaxDistance(constraints) ==
    IF constraints.optimization_criteria = "MINIMIZE_DISTANCE"
    THEN constraints.max_route_duration_minutes * 60
    ELSE constraints.max_route_duration_minutes * 100

\* int(loads[from_node] * 100)
demand_callback(locations, node) == locations[node].load_kg \div 10

\* int(float(constraints.vehicle_capacity_kg) * 100)
VehicleCapacity(constraints) == constraints.vehicle_capacity_kg \div 10

\* any(load > 0 for load in loads)
HasCapacityDimension(locations) == \E k \in DOMAIN locations : locations[k].load_kg > 0

\* lines 59-65: AddDimension(transit, 30 * 60, max_distance, True, 'Distance')
DistanceDimension(constraints) ==
    [slack_max |-> DistanceSlackMax, capacity |-> MaxDistance(constraints),
     fix_start_cumul_to_zero |-> TRUE]

\* lines 67-81: AddDimensionWithVehicleCapacity(demand, 0, [capacity] *
\* max_vehicles, True, 'Capacity'), added only when some load is positive
CapacityDimension(locations, constraints) ==
    IF HasCapacityDimension(locations)
    THEN Some([slack_max |-> 0, fix_start_cumul_to_zero |-> TRUE,
               demands |-> [k \in DOMAIN locations |-> demand_callback(locations, k)],
               vehicle_capacities |-> [v \in 0..(constraints.max_vehicles - 1) |->
                                          VehicleCapacity(constraints)]])
    ELSE None

\* lines 37-81: what solve_vrp hands to the solver
RoutingModel(locations, constraints, matrix) ==
    [matrix |-> matrix, num_vehicles |-> constraints.max_vehicles,
     distance_dimension |-> DistanceDimension(constraints),
     capacity_dimension |-> CapacityDimension(locations, constraints)]

\* Sum of the transits of a vehicle's tour depot -> path -> depot.
TourCost(matrix, path) ==
    LET tour == <<0>> \o path \o <<0>>
    IN  SumSeq([p \in 1..(Len(tour) - 1) |-> matrix[tour[p]][tour[p + 1]]])

\* Sum of the demands of the nodes a vehicle leaves: the depot and its path.
PathDemand(demands, path) ==
    LET walk == <<0>> \o path
    IN  SumSeq([p \in 1..Len(walk) |-> demands[walk[p]]])

\* Every way to split a sequence in `parts` consecutive pieces.
RECURSIVE Splits(_, _)
Splits(s, parts) ==
    IF parts = 1 THEN {<<s>>}
    ELSE UNION {{<<SubSeq(s, 1, c)>> \o rest : rest \in Splits(SubSeq(s, c + 1, Len(s)), parts - 1)}
                : c \in 0..Len(s)}

\* Every assignment of the non-depot nodes to the vehicles 0..max_vehicles-1.
Assignments(locations, constraints) ==
    LET nodes == DOMAIN locations \ {0}
        V == constraints.max_vehicles
    IN  {[v \in 0..(V - 1) |-> sp[v + 1]] :
            sp \in UNION {Splits(p, V) : p \in Perms(nodes)}}

\* The assignments that satisfy the dimensions.  A cumulative value starts
\* at zero and grows by the transit and a slack the solver chooses in
\* 0..slack_max, so a tour fits a dimension exactly when the sum of its
\* transits does not exceed the capacity.
FeasibleAssignments(locations, constraints, matrix) ==
    LET distance == DistanceDimension(constraints)
        capacity == CapacityDimension(locations, constraints)
    IN  {a \in Assignments(locations, constraints) :
            \A v \in DOMAIN a :
                /\ TourCost(matrix, a[v]) <= distance.capacity
                /\ capacity # None =>
                       PathDemand(capacity[1].demands, a[v])
                           <= capacity[1].vehicle_capacities[v]}

SolverOutcomes(locations, constraints, matrix) ==
    {[kind |-> "solution", paths |-> a] :
        a \in FeasibleAssignments(locations, constraints, matrix)}
    \cup {[kind |-> "none", paths |-> <<>>], [kind |-> "raise", paths |-> <<>>]}

(***************************************************************************)
(* app/services/vrp_solver.py: the solution decoder                        *)
(***************************************************************************)
\* StopData measuring every leg from the start of the walk
StopDataFromDepot(locations, matrix, walk, p) ==
    LET node_index == walk[p]
        location == locations[node_index]
        travel_time == IF p > 1 THEN matrix[walk[1]][node_index] \div 60 ELSE 0
    IN  [order_id |-> location.order_id,
         latitude |-> location.latitude,
         longitude |-> location.longitude,
         service_time_minutes |-> location.service_time_minutes,
         load_kg |-> location.load_kg,
         stop_sequence |-> p - 1,
         travel_time_from_previous |-> travel_time,
         distance_from_previous |-> travel_time * 800,
         stop_type |-> IF p = 1 THEN "DEPOT" ELSE "DELIVERY"]

\* The stop emitted for the p-th node (p from 1) of a vehicle's walk
\* start -> ... (the end node is not visited by the loop).
StopData(locations, matrix, walk, p) ==
    LET node_index == walk[p]
        location == locations[node_index]
        travel_time == IF p > 1 THEN matrix[walk[p - 1]][node_index] \div 60 ELSE 0
    IN  [order_id |-> location.order_id,
         latitude |-> location.latitude,
         longitude |-> location.longitude,
         service_time_minutes |-> location.service_time_minutes,
         load_kg |-> location.load_kg,
         stop_sequence |-> p - 1,
         travel_time_from_previous |-> travel_time,
         distance_from_previous |-> travel_time * 800,
         stop_type |-> IF p = 1 THEN "DEPOT" ELSE "DELIVERY"]

\* route_distance with the arc back into the depot added as well
RouteDistanceWithReturn(matrix, walk) ==
    SumSeq([p \in 1..(Len(walk) - 1) |-> matrix[walk[p]][walk[p + 1]]])
        + matrix[walk[Len(walk)]][walk[1]]

\* route_distance: the arc costs between consecutive visited nodes; the arc
\* into the end node is not added.
RouteDistance(matrix, walk) ==
    SumSeq([p \in 1..(Len(walk) - 1) |-> matrix[walk[p]][walk[p + 1]]])

\* every vehicle's route kept, also the ones that stay at the depot
KeepRouteWithDepotOnly(route) == Len(route) > 0

\* "Only add route if it has stops beyond depot"
KeepRouteDropsSingles(route) == Len(route) > 2

KeepRoute(route) == Len(route) > 1

RouteData(locations, matrix, vehicle_id, path) ==
    LET walk == <<0>> \o path
        route == [p \in 1..Len(walk) |-> StopData(locations, matrix, walk, p)]
        route_time == RouteDistance(matrix, walk) \div 60
    IN  [vehicle_id |-> vehicle_id,
         route_sequence |-> vehicle_id,
         total_distance_minutes |-> route_time,
         total_distance_km |-> route_time * 800,
         total_load_kg |-> SumSeq([p \in 1..Len(route) |-> route[p].load_kg]),
         stops |-> route]

\* The routes of vehicles v, v+1, ..., in vehicle order, depot-only ones dropped.
RECURSIVE RoutesFrom(_, _, _, _)
RoutesFrom(locations, matrix, paths, v) ==
    IF v \notin DOMAIN paths THEN <<>>
    ELSE LET r == RouteData(locations, matrix, v, paths[v])
         IN  (IF KeepRoute(r.stops) THEN <<r>> ELSE <<>>)
             \o RoutesFrom(locations, matrix, paths, v + 1)

_extract_solution(paths, locations, matrix) ==
    LET routes == RoutesFrom(locations, matrix, paths, 0)
    IN  [routes |-> routes,
         success |-> TRUE,
         error |-> "",
         summary |->
            [total_distance_km |-> SumSeq([i \in 1..Len(routes) |-> routes[i].total_distance_km]),
             total_time_minutes |-> SumSeq([i \in 1..Len(routes) |-> routes[i].total_distance_minutes]),
             vehicles_used |-> Len(routes),
             total_stops |-> SumSeq([i \in 1..Len(routes) |-> Len(routes[i].stops)])]]

\* ErrorResult reporting success with no route
ErrorResultAsSuccess(error) ==
    [routes |-> <<>>, success |-> TRUE, error |-> error,
     summary |-> [total_distance_km |-> 0, total_time_minutes |-> 0,
                  vehicles_used |-> 0, total_stops |-> 0]]

\* A result without the "success" key: solution.get("success") is falsy.
ErrorResult(error) ==
    [routes |-> <<>>, success |-> FALSE, error |-> error,
     summary |-> [total_distance_km |-> 0, total_time_minutes |-> 0,
                  vehicles_used |-> 0, total_stops |-> 0]]

ErrNeedTwoLocations == "Need at least 2 locations (depot + delivery)"
ErrNoSolution == "No solution found for the given constraints"
ErrSolverRaised == "Optimization failed: solver error"
ErrTrafficRaised == "Optimization failed: RetryError"

\* get_traffic_flow raises during the construction of the matrix
MatrixRaises(locations, use_traffic, service) ==
    use_traffic /\ \E i \in DOMAIN locations : get_traffic_flow(service[i]).raised

\* solve_vrp, given what the traffic service (service) and the external
\* solver (outcome) do.
solve_vrp(locations, constraints, use_traffic, service, outcome) ==
    IF NumLocations(locations) < 2 THEN ErrorResult(ErrNeedTwoLocations)
    ELSE IF MatrixRaises(locations, use_traffic, service) THEN ErrorResult(ErrTrafficRaised)
    ELSE IF outcome.kind = "raise" THEN ErrorResult(ErrSolverRaised)
    ELSE IF outcome.kind = "solution"
         THEN _extract_solution(outcome.paths, locations,
                                _create_distance_matrix(locations, use_traffic, service))
         ELSE ErrorResult(ErrNoSolution)

(***************************************************************************)
(* app/schemas/coordinate_optimization.py                                  *)
(***************************************************************************)
CoordinatePoint(lat, lng, service_time_minutes, load_kg) ==
    [service_time_minutes |-> service_time_minutes, load_kg |-> load_kg,
     lat |-> lat, lng |-> lng]

CoordinateOptimizationRequest(start, waypoints, use_traffic, optimize_order, max_vehicles, vehicle_capacity_kg) ==
    [max_vehicles |-> max_vehicles, vehicle_capacity_kg |-> vehicle_capacity_kg,
     use_traffic |-> use_traffic, start |-> start, waypoints |-> waypoints,
     optimize_order |-> optimize_order]

RouteSegment(from_location, to_location, distance_km, duration_minutes, traffic_delay_minutes, congestion_level) ==
    [congestion_level |-> congestion_level,
     from_location |-> from_location, to_location |-> to_location,
     distance_km |-> distance_km, duration_minutes |-> duration_minutes,
     traffic_delay_minutes |-> traffic_delay_minutes]

CoordinateOptimizationResponse(success, total_distance_km, total_duration_minutes, total_traffic_delay_minutes, optimized_sequence, route_segments, waypoints_in_order, summary) ==
    [total_distance_km |-> total_distance_km, success |-> success,
     summary |-> summary,
     total_duration_minutes |-> total_duration_minutes,
     total_traffic_delay_minutes |-> total_traffic_delay_minutes,
     optimized_sequence |-> optimized_sequence, route_segments |-> route_segments,
     waypoints_in_order |-> waypoints_in_order]

\* The summary dict of a coordinate response.
CoordinateSummary(vehicles_used, total_stops, optimization_applied, traffic_aware) ==
    [vehicles_used |-> vehicles_used, total_stops |-> total_stops,
     optimization_applied |-> optimization_applied, traffic_aware |-> traffic_aware]

(***************************************************************************)
(* State.                                                                  *)
(***************************************************************************)
VARIABLES
    jobs,       \* committed rows of optimization_jobs: a function job id -> row
    routes,     \* committed rows of optimized_routes
    stops,      \* committed rows of route_stops
    next_job,   \* how many job ids (uuid4, never reused) have been handed out
    tasks,      \* per job id: the background task process_optimization and its session
    faults,     \* database faults (OperationalError) raised so far
    response,   \* the last HTTP response returned by an endpoint
    service_call \* a direct call of a service function: its arguments and what it returned

vars == <<jobs, routes, stops, next_job, tasks, faults, response, service_call>>

\* datetime.now(): the model keeps only that a timestamp was stored
Timestamp == "datetime"

ExcOperationalError == "OperationalError"
ExcStaleData == "StaleDataError"
ExcIntegrity == "IntegrityError"
ExcObjectDeleted == "ObjectDeletedError"
ExcPendingRollback == "PendingRollbackError"

\* A task that was never scheduled.
NoTask ==
    [locations |-> <<>>,
     use_traffic |-> FALSE, constraints |-> None, solution |-> None,
     pc |-> "idle", order_count |-> 0, session |-> "active", job |-> None, saved |-> 0,
     exc |-> "", raised_at |-> "", escaped |-> "", assigned |-> <<>>]

\* The request and the result of an exchange that is not a coordinate
\* optimization.
NoRequest ==
    CoordinateOptimizationRequest(CoordinatePoint(0, 0, 0, 0), <<>>, FALSE, FALSE, 0, 0)

NoResult ==
    CoordinateOptimizationResponse(FALSE, 0, 0, 0, <<>>, <<>>, <<>>,
                                   CoordinateSummary(0, 0, FALSE, FALSE))

\* An HTTP exchange of a job endpoint: the endpoint called, the request's
\* argument (the number of order ids for optimize_routes, the job id of the
\* path for the others), the status code returned, the job id the response
\* names (0: none) and its text (the job's status, a message or an error
\* detail).
Response(endpoint, arg, status, job_id, body) ==
    [endpoint |-> endpoint, arg |-> arg, status |-> status, job_id |-> job_id,
     body |-> body, request |-> NoRequest, result |-> NoResult, solver |-> ""]

\* An HTTP exchange of POST /routes/optimize-coordinates: the request, the
\* status code, the error detail ("" on success), the response model, and
\* what the solver did while the request was served ("solution", "none" or
\* "raise").
CoordinateExchange(request, status, detail, result, solver) ==
    [endpoint |-> "optimize_from_coordinates", arg |-> 0, status |-> status,
     job_id |-> 0, body |-> detail, request |-> request, result |-> result,
     solver |-> solver]

NoResponse == Response("", 0, 0, 0, "")

\* No service function is called directly.
NoCall == [fn |-> "", stage |-> "", args |-> <<>>, out |-> <<>>]

\* The stored job ids and the row of a stored job.
JobExists(job_id) == job_id \in DOMAIN jobs

\* jobs with the row of job_id inserted or replaced
Put(job_id, row) == [j \in DOMAIN jobs \cup {job_id} |-> IF j = job_id THEN row ELSE jobs[j]]

\* jobs with the row of job_id deleted
Remove(job_id) == [j \in DOMAIN jobs \ {job_id} |-> jobs[j]]

Init ==
    /\ jobs = [j \in {} |-> None]
    /\ routes = {}
    /\ stops = {}
    /\ next_job = 0
    /\ tasks = [j \in JobIds |-> NoTask]
    /\ faults = 0
    /\ response = NoResponse
    /\ service_call = NoCall

\* optimize_routes and process_optimization are coroutines (async def) on the
\* server's one event loop, and process_optimization never awaits: from its
\* first line to its return nothing else runs on the loop.  The handlers
\* declared with def (get_optimization_job, delete_optimization_job) run on
\* worker threads and interleave with it at its database operations.
EventLoopFree == \A j \in JobIds : tasks[j].pc \in {"idle", "queued", "done"}

\* A database operation may raise OperationalError (connection or statement
\* failure); the model bounds how many such faults a run has.
MayFault == faults < MaxDbFaults

(***************************************************************************)
(* POST /routes/optimize  (optimize_routes)                                *)
(***************************************************************************)
\* `a or b` on an optional float: None and 0.0 are falsy.
PyOr(a, b) == IF a = None \/ a = Some(0) THEN b ELSE a[1]

\* RejectStatus without the upper limit on the number of order ids
RejectStatusWithoutLimit(order_count) ==
    IF order_count < 1 THEN 422 ELSE 0

\* The status the request is rejected with before a job is created, or 0.
\* OptimizationRequest.order_ids has min_items=1, max_items=100 (422 from the
\* schema); the handler checks len(order_ids) > 100 again (400).
RejectStatus(order_count) ==
    IF order_count < 1 \/ order_count > MaxOrdersPerOptimization THEN 422
    ELSE IF order_count > MaxOrdersPerOptimization THEN 400
    ELSE 0

JobRow(job_status, order_count, constraints, depot_latitude, depot_longitude) ==
    [max_vehicles |-> constraints.max_vehicles,
     vehicle_capacity_kg |-> constraints.vehicle_capacity_kg,
     optimization_criteria |-> constraints.optimization_criteria,
     total_distance_km |-> None,
     job_status |-> job_status,
     depot_latitude |-> PyOr(depot_latitude, DefaultDepotLat),
     depot_longitude |-> PyOr(depot_longitude, DefaultDepotLng),
     total_orders |-> order_count,
     total_estimated_time_minutes |-> None,
     completed_at |-> None,
     computation_time_seconds |-> None,
     error_message |-> None]

\* NewJob with the status the background task gives the job
NewJobInProgress(order_count, constraints, depot_latitude, depot_longitude) ==
    JobRow(IN_PROGRESS, order_count, constraints, depot_latitude, depot_longitude)

\* lines 48-57: job = OptimizationJob(job_status="PENDING", ...)
NewJob(order_count, constraints, depot_latitude, depot_longitude) ==
    JobRow(PENDING, order_count, constraints, depot_latitude, depot_longitude)

optimize_routes(order_count, constraints, depot_latitude, depot_longitude, use_traffic) ==
    LET job_id == next_job + 1
        job == NewJob(order_count, constraints, depot_latitude, depot_longitude)
    IN
    \/ \* rejected before any job is created
       /\ EventLoopFree
       /\ RejectStatus(order_count) # 0
       /\ response' = Response("optimize_routes", order_count, RejectStatus(order_count), 0, "")
       /\ UNCHANGED <<jobs, routes, stops, next_job, tasks, faults, service_call>>
    \/ \* db.commit() raises: nothing is stored, 500
       /\ EventLoopFree
       /\ RejectStatus(order_count) = 0
       /\ MayFault
       /\ faults' = faults + 1
       /\ response' = Response("optimize_routes", order_count, 500, 0, "")
       /\ UNCHANGED <<jobs, routes, stops, next_job, tasks, service_call>>
    \/ \* the row is committed, db.refresh(job) raises: 500, no task is added
       /\ EventLoopFree
       /\ RejectStatus(order_count) = 0
       /\ next_job < MaxJobs
       /\ MayFault
       /\ faults' = faults + 1
       /\ jobs' = Put(job_id, job)
       /\ next_job' = job_id
       /\ response' = Response("optimize_routes", order_count, 500, 0, "")
       /\ UNCHANGED <<routes, stops, tasks, service_call>>
    \/ \* the row is committed, the background task is added, the response returned
       /\ EventLoopFree
       /\ RejectStatus(order_count) = 0
       /\ next_job < MaxJobs
       /\ jobs' = Put(job_id, job)
       /\ next_job' = job_id
       /\ tasks' = [tasks EXCEPT ![job_id] =
                        [NoTask EXCEPT !.pc = "queued",
                                       !.order_count = order_count,
                                       !.constraints = Some(constraints),
                                       !.use_traffic = use_traffic]]
       /\ response' = Response("optimize_routes", order_count, 200, job_id, PENDING)
       /\ UNCHANGED <<routes, stops, faults, service_call>>

(***************************************************************************)
(* GET /routes/jobs/{job_id}  (get_optimization_job)                       *)
(***************************************************************************)
get_optimization_job(job_id) ==
    \/ \* the query raises: 500
       /\ MayFault
       /\ faults' = faults + 1
       /\ response' = Response("get_optimization_job", job_id, 500, 0, "")
       /\ UNCHANGED <<jobs, routes, stops, next_job, tasks, service_call>>
    \/ \* unknown job: 404
       /\ ~JobExists(job_id)
       /\ response' = Response("get_optimization_job", job_id, 404, 0, "")
       /\ UNCHANGED <<jobs, routes, stops, next_job, tasks, faults, service_call>>
    \/ \* the job is returned
       /\ JobExists(job_id)
       /\ response' = Response("get_optimization_job", job_id, 200, job_id,
                               jobs[job_id].job_status)
       /\ UNCHANGED <<jobs, routes, stops, next_job, tasks, faults, service_call>>

(***************************************************************************)
(* DELETE /routes/jobs/{job_id}  (delete_optimization_job)                 *)
(***************************************************************************)
\* Rows a session has flushed but not committed: the routes process_optimization
\* has inserted so far.  Their foreign key holds a lock on the job row, so a
\* concurrent DELETE of the job cannot succeed while they are pending.
HasUncommittedRoutes(job_id) ==
    /\ job_id \in JobIds
    /\ tasks[job_id].pc \in {"save", "finish"}
    /\ tasks[job_id].saved > 0

\* RoutesOf without the cascade from a job to its routes
RoutesOfWithoutCascade(job_id) == {}

\* cascade="all, delete-orphan" on OptimizationJob.routes and OptimizedRoute.stops
RoutesOf(job_id) == {r \in routes : r.job_id = job_id}

\* StopsOf without the cascade from a route to its stops
StopsOfWithoutCascade(rs) == {}

StopsOf(rs) == {s \in stops : \E r \in rs : s.route_id = r.route_id}

delete_optimization_job(job_id) ==
    \/ \* the query or the commit raises: 500, nothing is deleted
       /\ \/ MayFault /\ faults' = faults + 1
          \/ JobExists(job_id) /\ HasUncommittedRoutes(job_id) /\ faults' = faults
       /\ response' = Response("delete_optimization_job", job_id, 500, 0, "")
       /\ UNCHANGED <<jobs, routes, stops, next_job, tasks, service_call>>
    \/ \* unknown job: 404
       /\ ~JobExists(job_id)
       /\ response' = Response("delete_optimization_job", job_id, 404, 0, "")
       /\ UNCHANGED <<jobs, routes, stops, next_job, tasks, faults, service_call>>
    \/ \* db.delete(job); db.commit()
       /\ JobExists(job_id)
       /\ ~HasUncommittedRoutes(job_id)
       /\ jobs' = Remove(job_id)
       /\ routes' = routes \ RoutesOf(job_id)
       /\ stops' = stops \ StopsOf(RoutesOf(job_id))
       /\ response' = Response("delete_optimization_job", job_id, 200, 0, "Job deleted successfully")
       /\ UNCHANGED <<next_job, tasks, faults, service_call>>

(***************************************************************************)
(* process_optimization: the background task of a batch job.  Its steps    *)
(* are separated at the database operations, where other requests can      *)
(* interleave.  The session is the one the creating request was given.     *)
(*                                                                         *)
(* Session behaviour (SQLAlchemy, sessionmaker(autocommit=False,           *)
(* autoflush=False), expire_on_commit by default):                         *)
(*  - commit() that raises rolls the session back itself; the session      *)
(*    stays usable and nothing pending is kept;                            *)
(*  - flush() that raises leaves the session's transaction inactive: every *)
(*    later operation raises PendingRollbackError until rollback();        *)
(*  - a query or attribute refresh that raises may leave the session       *)
(*    usable (the connection could not be made) or unusable until          *)
(*    rollback() (the transaction is aborted or the connection invalid);   *)
(*  - commit and rollback expire the loaded objects: the next attribute    *)
(*    access reloads the row.                                              *)
(***************************************************************************)
SetTask(job_id, t) == tasks' = [tasks EXCEPT ![job_id] = t]

\* An exception raised inside the try block at step `at`: control moves to
\* the except clause.  Whatever the session had pending is gone.
Raise(job_id, text, at, session) ==
    SetTask(job_id, [tasks[job_id] EXCEPT !.pc = "handler", !.exc = text,
                                          !.raised_at = at, !.session = session,
                                          !.job = None, !.saved = 0])

\* An exception that leaves the except clause: the task ends.
Escape(job_id, text) ==
    SetTask(job_id, [tasks[job_id] EXCEPT !.pc = "done", !.escaped = text, !.job = None])

\* a database fault in a query or refresh at step `at`
QueryFault(job_id, at) ==
    /\ MayFault
    /\ faults' = faults + 1
    /\ \E session \in {"active", "needs_rollback"} :
           Raise(job_id, ExcOperationalError, at, session)

\* line 223: job = db.query(OptimizationJob)...first(); if not job: return
P_Query(job_id) ==
    /\ tasks[job_id].pc = "queued"
    /\ EventLoopFree
    /\ \/ QueryFault(job_id, "query")
       \/ /\ ~JobExists(job_id)
          /\ SetTask(job_id, [tasks[job_id] EXCEPT !.pc = "done"])
          /\ UNCHANGED faults
       \/ /\ JobExists(job_id)
          /\ SetTask(job_id, [tasks[job_id] EXCEPT !.pc = "mark", !.job = Some(jobs[job_id])])
          /\ UNCHANGED faults
    /\ UNCHANGED <<jobs, routes, stops, next_job, response, service_call>>

\* lines 229-230: job.job_status = "IN_PROGRESS"; db.commit()
P_MarkInProgress(job_id) ==
    LET t == [tasks[job_id] EXCEPT !.assigned = Append(@, IN_PROGRESS)]
    IN
    /\ tasks[job_id].pc = "mark"
    /\ \/ \* the row is gone: the UPDATE matches no row
          /\ ~JobExists(job_id)
          /\ tasks' = [tasks EXCEPT ![job_id] =
                 [t EXCEPT !.pc = "handler", !.exc = ExcStaleData, !.raised_at = "mark",
                           !.job = None]]
          /\ UNCHANGED <<jobs, faults>>
       \/ /\ MayFault
          /\ faults' = faults + 1
          /\ tasks' = [tasks EXCEPT ![job_id] =
                 [t EXCEPT !.pc = "handler", !.exc = ExcOperationalError,
                           !.raised_at = "mark", !.job = None]]
          /\ UNCHANGED jobs
       \/ /\ JobExists(job_id)
          /\ jobs' = Put(job_id, [jobs[job_id] EXCEPT !.job_status = IN_PROGRESS])
          /\ tasks' = [tasks EXCEPT ![job_id] = [t EXCEPT !.pc = "build", !.job = None]]
          /\ UNCHANGED faults
    /\ UNCHANGED <<routes, stops, next_job, response, service_call>>

\* lines 238-264: the depot of the job, then one mock location per order
BuildLocations(job, order_count) ==
    [k \in 0..order_count |->
        IF k = 0
        THEN LocationPoint(None, job.depot_latitude, job.depot_longitude, 0, 0)
        ELSE LocationPoint(Some(k), MockBaseLat + (k - 1), MockBaseLng + (k - 1),
                           MockServiceTimeMinutes, MockLoadKg)]

\* lines 232-271: reload the job (job.depot_latitude is read after the commit
\* expired it), build the locations, solve.
P_Solve(job_id) ==
    /\ tasks[job_id].pc = "build"
    /\ \/ QueryFault(job_id, "build")
       \/ /\ ~JobExists(job_id)
          /\ Raise(job_id, ExcObjectDeleted, "build", "active")
          /\ UNCHANGED faults
       \/ /\ JobExists(job_id)
          /\ LET t == tasks[job_id]
                 job == jobs[job_id]
                 locations == BuildLocations(job, t.order_count)
                 constraints_obj == t.constraints[1]
                 service == [i \in DOMAIN locations |-> Unreachable]
                 matrix == _create_distance_matrix(locations, t.use_traffic, service)
             IN  \E outcome \in SolverOutcomes(locations, constraints_obj, matrix) :
                    LET solution == solve_vrp(locations, constraints_obj, t.use_traffic,
                                              service, outcome)
                    IN  SetTask(job_id,
                            [t EXCEPT !.job = Some(job),
                                      !.locations = locations,
                                      !.solution = Some(solution),
                                      !.pc = IF solution.success /\ Len(solution.routes) > 0
                                             THEN "save" ELSE "finish"])
          /\ UNCHANGED faults
    /\ UNCHANGED <<jobs, routes, stops, next_job, response, service_call>>

\* The route row and the stop rows process_optimization stores for a route
\* of the solution.  A route id is the pair <<job id, vehicle id>>.
RouteRow(job_id, route_data) ==
    [vehicle_id |-> route_data.vehicle_id,
     route_sequence |-> route_data.route_sequence,
     total_distance_km |-> route_data.total_distance_km,
     total_load_kg |-> route_data.total_load_kg,
     job_id |-> job_id,
     route_id |-> <<job_id, route_data.vehicle_id>>,
     estimated_duration_minutes |-> route_data.total_distance_minutes]

StopRows(job_id, route_data) ==
    {[order_id |-> stop_data.order_id,
      stop_sequence |-> stop_data.stop_sequence,
      stop_type |-> stop_data.stop_type,
      route_id |-> <<job_id, route_data.vehicle_id>>,
      address_latitude |-> stop_data.latitude,
      address_longitude |-> stop_data.longitude,
      estimated_service_time_minutes |-> stop_data.service_time_minutes,
      distance_from_previous_km |-> stop_data.distance_from_previous,
      travel_time_from_previous_minutes |-> stop_data.travel_time_from_previous,
      load_delivery_kg |-> stop_data.load_kg] : stop_data \in Range(route_data.stops)}

\* lines 278-307, one iteration: db.add(route); db.flush(); db.add(stop)...
\* The INSERT of the route checks its foreign key to the job row.
P_SaveRoute(job_id) ==
    /\ tasks[job_id].pc = "save"
    /\ \/ /\ ~JobExists(job_id)
          /\ Raise(job_id, ExcIntegrity, "save", "needs_rollback")
          /\ UNCHANGED faults
       \/ /\ MayFault
          /\ faults' = faults + 1
          /\ Raise(job_id, ExcOperationalError, "save", "needs_rollback")
       \/ /\ JobExists(job_id)
          /\ LET t == tasks[job_id]
             IN  SetTask(job_id,
                     [t EXCEPT !.saved = @ + 1,
                               !.pc = IF t.saved + 1 = Len(t.solution[1].routes)
                                      THEN "finish" ELSE "save"])
          /\ UNCHANGED faults
    /\ UNCHANGED <<jobs, routes, stops, next_job, response, service_call>>

\* lines 310-312: the job as completed, with the totals summed over the routes
CompleteJob(row, solution) ==
    [row EXCEPT !.job_status = COMPLETED,
                !.total_distance_km =
                    Some(SumSeq([i \in 1..Len(solution.routes) |->
                                    solution.routes[i].total_distance_km])),
                !.total_estimated_time_minutes =
                    Some(SumSeq([i \in 1..Len(solution.routes) |->
                                    solution.routes[i].total_distance_minutes]))]

\* FailJob without the assignment of line 316
FailJobWithoutMessage(row, solution) ==
    [row EXCEPT !.job_status = FAILED]

\* lines 315-316: the job as failed, with the solver's error
FailJob(row, solution) ==
    [row EXCEPT !.job_status = FAILED, !.error_message = Some(solution.error)]

\* Stamp without the assignment of line 318
StampWithoutCompletedAt(row) ==
    [row EXCEPT !.computation_time_seconds = Some("elapsed")]

\* lines 318-319
Stamp(row) ==
    [row EXCEPT !.completed_at = Some(Timestamp),
                !.computation_time_seconds = Some("elapsed")]

\* lines 273-319: what the task assigns to the job before the final commit
FinishedJob(row, solution) ==
    Stamp(IF solution.success THEN CompleteJob(row, solution) ELSE FailJob(row, solution))

\* lines 309-320: the assignments to the job and the final db.commit(), which
\* writes the job, the routes and the stops in one transaction.
P_Finish(job_id) ==
    LET solution == tasks[job_id].solution[1]
        t == [tasks[job_id] EXCEPT
                !.assigned = Append(@, IF solution.success THEN COMPLETED ELSE FAILED)]
    IN
    /\ tasks[job_id].pc = "finish"
    /\ \/ \* the row is gone: the UPDATE matches no row
          /\ ~JobExists(job_id)
          /\ tasks' = [tasks EXCEPT ![job_id] =
                 [t EXCEPT !.pc = "handler", !.exc = ExcStaleData, !.raised_at = "finish",
                           !.job = None, !.saved = 0]]
          /\ UNCHANGED <<jobs, routes, stops, faults>>
       \/ /\ MayFault
          /\ faults' = faults + 1
          /\ tasks' = [tasks EXCEPT ![job_id] =
                 [t EXCEPT !.pc = "handler", !.exc = ExcOperationalError,
                           !.raised_at = "finish", !.job = None, !.saved = 0]]
          /\ UNCHANGED <<jobs, routes, stops>>
       \/ /\ JobExists(job_id)
          /\ jobs' = Put(job_id, FinishedJob(jobs[job_id], solution))
          /\ routes' = routes \cup
                 {RouteRow(job_id, solution.routes[i]) : i \in 1..Len(solution.routes)}
          /\ stops' = stops \cup
                 UNION {StopRows(job_id, solution.routes[i]) : i \in 1..Len(solution.routes)}
          /\ tasks' = [tasks EXCEPT ![job_id] =
                 [t EXCEPT !.pc = "log", !.job = None, !.saved = 0]]
          /\ UNCHANGED faults
    /\ UNCHANGED <<next_job, response, service_call>>

\* line 322: the log line reads job.job_status, which the commit expired:
\* the row is reloaded.
P_Log(job_id) ==
    /\ tasks[job_id].pc = "log"
    /\ \/ QueryFault(job_id, "log")
       \/ /\ ~JobExists(job_id)
          /\ Raise(job_id, ExcObjectDeleted, "log", "active")
          /\ UNCHANGED faults
       \/ /\ JobExists(job_id)
          /\ SetTask(job_id, [tasks[job_id] EXCEPT !.pc = "done"])
          /\ UNCHANGED faults
    /\ UNCHANGED <<jobs, routes, stops, next_job, response, service_call>>

\* lines 324-329: the except clause queries the job again, on the same session
H_Query(job_id) ==
    /\ tasks[job_id].pc = "handler"
    /\ \/ /\ tasks[job_id].session = "needs_rollback"
          /\ Escape(job_id, ExcPendingRollback)
          /\ UNCHANGED faults
       \/ /\ tasks[job_id].session = "active"
          /\ MayFault
          /\ faults' = faults + 1
          /\ Escape(job_id, ExcOperationalError)
       \/ /\ tasks[job_id].session = "active"
          /\ ~JobExists(job_id)
          /\ SetTask(job_id, [tasks[job_id] EXCEPT !.pc = "done"])
          /\ UNCHANGED faults
       \/ /\ tasks[job_id].session = "active"
          /\ JobExists(job_id)
          /\ SetTask(job_id, [tasks[job_id] EXCEPT !.pc = "handler_set",
                                                   !.job = Some(jobs[job_id])])
          /\ UNCHANGED faults
    /\ UNCHANGED <<jobs, routes, stops, next_job, response, service_call>>

\* lines 330-332
HandlerFailJob(row, exc) ==
    [row EXCEPT !.job_status = FAILED,
                !.error_message = Some(exc),
                !.completed_at = Some(Timestamp)]

\* lines 330-333: mark the job failed and commit
H_Fail(job_id) ==
    LET t == [tasks[job_id] EXCEPT !.assigned = Append(@, FAILED), !.job = None]
    IN
    /\ tasks[job_id].pc = "handler_set"
    /\ \/ /\ ~JobExists(job_id)
          /\ tasks' = [tasks EXCEPT ![job_id] =
                          [t EXCEPT !.pc = "done", !.escaped = ExcStaleData]]
          /\ UNCHANGED <<jobs, faults>>
       \/ /\ MayFault
          /\ faults' = faults + 1
          /\ tasks' = [tasks EXCEPT ![job_id] =
                          [t EXCEPT !.pc = "done", !.escaped = ExcOperationalError]]
          /\ UNCHANGED jobs
       \/ /\ JobExists(job_id)
          /\ jobs' = Put(job_id, HandlerFailJob(jobs[job_id], tasks[job_id].exc))
          /\ tasks' = [tasks EXCEPT ![job_id] = [t EXCEPT !.pc = "done"]]
          /\ UNCHANGED faults
    /\ UNCHANGED <<routes, stops, next_job, response, service_call>>

(***************************************************************************)
(* app/services/coordinate_optimizer.py                                    *)
(***************************************************************************)
\* A value returned, or an exception raised with the given text.
Returns(value) == [value |-> value, error |-> "", ok |-> TRUE]
Raises(error) == [value |-> NoResult, error |-> error, ok |-> FALSE]

_convert_to_location_points(request) ==
    [k \in 0..Len(request.waypoints) |->
        IF k = 0
        THEN LocationPoint(None, request.start.lat, request.start.lng, 0, 0)
        ELSE LocationPoint(None, request.waypoints[k].lat, request.waypoints[k].lng,
                           request.waypoints[k].service_time_minutes,
                           request.waypoints[k].load_kg)]

\* int(travel_time * factor) with the factors 0.0, 0.2, 0.5, 1.0
_estimate_traffic_delay(travel_time, congestion_level) ==
    CASE congestion_level = "MODERATE" -> travel_time \div 5
      [] congestion_level = "HIGH" -> travel_time \div 2
      [] congestion_level = "SEVERE" -> travel_time
      [] OTHER -> 0

\* How often _build_response_from_vrp calls get_traffic_flow: once per stop
\* after the depot of the first route.
TrafficCalls(solution) ==
    IF solution.success /\ Len(solution.routes) > 0
    THEN Len(solution.routes[1].stops) - 1
    ELSE 0

\* traffic[i] is what get_traffic_flow answers for the segment into stop i
\* (stops counted from 0 as in the code).
_build_response_from_vrp(solution, request, locations, traffic) ==
    IF solution.routes = <<>> THEN Raises("No route generated")
    ELSE
    LET route == solution.routes[1]
        route_stops == route.stops
        n == Len(route_stops) - 1
        stop(i) == route_stops[i + 1]
        waypoint_idx(i) == stop(i).stop_sequence - 1
        mapped == {i \in 1..n : waypoint_idx(i) >= 0
                                  /\ waypoint_idx(i) < Len(request.waypoints)}
        RECURSIVE Picked(_)
        Picked(i) ==
            IF i > n THEN <<>>
            ELSE (IF i \in mapped THEN <<waypoint_idx(i)>> ELSE <<>>) \o Picked(i + 1)
        optimized_sequence == Picked(1)
        segment(i) ==
            LET congestion_level == traffic[i].congestion_level
                travel_time == stop(i).travel_time_from_previous
            IN  RouteSegment(
                    CoordinatePoint(stop(i - 1).latitude, stop(i - 1).longitude, 5, 0),
                    CoordinatePoint(stop(i).latitude, stop(i).longitude, 5, 0),
                    stop(i).distance_from_previous,
                    travel_time,
                    _estimate_traffic_delay(travel_time, congestion_level),
                    congestion_level)
        RECURSIVE Segments(_)
        Segments(i) == IF i > n THEN <<>> ELSE <<segment(i)>> \o Segments(i + 1)
        route_segments == Segments(1)
        RECURSIVE Waypoints(_)
        Waypoints(i) ==
            IF i > n THEN <<>>
            ELSE (IF i \in mapped THEN <<request.waypoints[waypoint_idx(i) + 1]>> ELSE <<>>)
                 \o Waypoints(i + 1)
        waypoints_in_order == Waypoints(1)
    IN  Returns(CoordinateOptimizationResponse(
            TRUE,
            route.total_distance_km,
            route.total_distance_minutes,
            SumSeq([i \in 1..n |-> route_segments[i].traffic_delay_minutes]),
            optimized_sequence,
            route_segments,
            waypoints_in_order,
            CoordinateSummary(1, Len(waypoints_in_order), TRUE, request.use_traffic)))

\* The constraints optimize_route hands to the solver.
CoordinateConstraints(request) ==
    OptimizationConstraints(request.max_vehicles, request.vehicle_capacity_kg,
                            IF request.use_traffic THEN "MINIMIZE_TIME"
                            ELSE "MINIMIZE_DISTANCE")

\* list(range(n)) from i
RECURSIVE RangeFrom(_, _)
RangeFrom(i, n) == IF i >= n THEN <<>> ELSE <<i>> \o RangeFrom(i + 1, n)

\* round(total_distance, 2) of a distance in metres
Round2(distance) == ((distance + 5) \div 10) * 10

\* service[i] is what the traffic service does for calculate_travel_time at
\* point i of [start] + waypoints (from 0); traffic[i] is what the direct
\* call of get_traffic_flow answers for the i-th segment (from 1).
_build_sequential_route(request, locations, service, traffic) ==
    LET all_points == <<request.start>> \o request.waypoints
        n == Len(all_points) - 1
        segment(i) ==
            LET from_point == all_points[i]
                to_point == all_points[i + 1]
                travel_time == calculate_travel_time(from_point.lat, from_point.lng,
                                                     to_point.lat, to_point.lng,
                                                     service[i - 1])
                congestion_level == traffic[i].congestion_level
                distance == _calculate_distance(from_point.lat, from_point.lng,
                                                to_point.lat, to_point.lng)
            IN  RouteSegment(from_point, to_point, distance, travel_time,
                             _estimate_traffic_delay(travel_time, congestion_level),
                             congestion_level)
        RECURSIVE Segments(_)
        Segments(i) == IF i > n THEN <<>> ELSE <<segment(i)>> \o Segments(i + 1)
        route_segments == Segments(1)
        RECURSIVE Total(_, _)
        Total(i, field) ==
            IF i > n THEN 0
            ELSE (CASE field = "distance" -> route_segments[i].distance_km
                    [] field = "duration" -> route_segments[i].duration_minutes
                    [] OTHER -> route_segments[i].traffic_delay_minutes)
                 + Total(i + 1, field)
    IN  Returns(CoordinateOptimizationResponse(
            TRUE,
            Round2(Total(1, "distance")),
            Total(1, "duration"),
            Total(1, "delay"),
            RangeFrom(0, Len(request.waypoints)),
            route_segments,
            request.waypoints,
            CoordinateSummary(1, Len(request.waypoints), FALSE, request.use_traffic)))

\* the solver used whenever optimize_order is set
UsesSolverForOneWaypoint(request) == request.optimize_order

\* line 47: the solver is used
UsesSolver(request) == request.optimize_order /\ Len(request.waypoints) > 1

\* optimize_route, given what the traffic service (service, traffic) and
\* the solver (outcome) do.
optimize_route(request, service, outcome, traffic) ==
    LET locations == _convert_to_location_points(request)
        constraints == CoordinateConstraints(request)
        solution == solve_vrp(locations, constraints, request.use_traffic, service, outcome)
    IN  IF UsesSolver(request)
        THEN IF ~solution.success THEN Raises(solution.error)
             ELSE _build_response_from_vrp(solution, request, locations, traffic)
        ELSE _build_sequential_route(request, locations, service, traffic)

(***************************************************************************)
(* POST /routes/optimize-coordinates  (optimize_from_coordinates)          *)
(***************************************************************************)
\* `result` is what coordinate_optimizer.optimize_route(request) returned or
\* raised while the solver did `outcome`.
optimize_from_coordinates(request, outcome, result) ==
    LET solver == IF UsesSolver(request) THEN outcome.kind ELSE "not used"
    IN
    /\ EventLoopFree
    /\ response' =
          IF result.ok
          THEN CoordinateExchange(request, 200, "", result.value, solver)
          ELSE CoordinateExchange(request, 500, "Optimization failed: " \o result.error,
                                  NoResult, solver)
    /\ UNCHANGED <<jobs, routes, stops, next_job, tasks, faults, service_call>>

(***************************************************************************)
(* The requests the model draws.                                           *)
(***************************************************************************)
OrderCounts == 0..MaxOrders \cup {MaxOrdersPerOptimization + 1}

BatchConstraints ==
    {OptimizationConstraints(v, DefaultVehicleCapacityKg, "MINIMIZE_DISTANCE") :
        v \in 1..MaxVehicles}

\* the depot a request carries in its constraints: none, or latitude 0.0
\* with a longitude 0.15 degrees west of the default depot
RequestDepots == {<<None, None>>, <<Some(0), Some(DefaultDepotLng - 15)>>}

CreateJob ==
    \E order_count \in OrderCounts, constraints \in BatchConstraints, depot \in RequestDepots :
        optimize_routes(order_count, constraints, depot[1], depot[2], FALSE)

ReadJob == \E job_id \in RequestJobIds : get_optimization_job(job_id)

DeleteJob == \E job_id \in RequestJobIds : delete_optimization_job(job_id)

\* What the traffic service answers: nothing (the default dict is used) or
\* a congested road.
TrafficAnswers == {DefaultTrafficData, TrafficData(25, 60, "HIGH", 9)}

\* Coordinate requests: the depot of the mock data as start, two waypoints
\* north-east of it, offline cost matrix, order optimized.
CoordinateRequests ==
    {CoordinateOptimizationRequest(
         CoordinatePoint(MockBaseLat, MockBaseLng, 5, 0),
         <<CoordinatePoint(MockBaseLat + 3, MockBaseLng + 3, 5, 0),
           CoordinatePoint(MockBaseLat + 1, MockBaseLng + 1, 5, 0)>>,
         FALSE, TRUE, max_vehicles, DefaultVehicleCapacityKg) :
        max_vehicles \in 1..MaxVehicles}

\* what the traffic service does during a coordinate request, per point
CoordinateService(request) ==
    [i \in 0..Len(request.waypoints) |-> Unreachable]

\* the outcomes the solver can have for a coordinate request
CoordinateOutcomes(request) ==
    LET locations == _convert_to_location_points(request)
    IN  SolverOutcomes(locations, CoordinateConstraints(request),
                       _create_distance_matrix(locations, request.use_traffic,
                                               CoordinateService(request)))

\* the answers the traffic service can give during a coordinate request
CoordinateTraffic(request, outcome) ==
    LET locations == _convert_to_location_points(request)
        solution == solve_vrp(locations, CoordinateConstraints(request),
                              request.use_traffic, CoordinateService(request), outcome)
    IN  [1..TrafficCalls(solution) -> TrafficAnswers]

\* Every call of optimize_route the model draws: the request and what the
\* solver and the traffic service do during it.
CoordinateCalls ==
    UNION {UNION {{<<request, outcome, traffic>> :
                        traffic \in CoordinateTraffic(request, outcome)} :
                  outcome \in CoordinateOutcomes(request)} :
           request \in CoordinateRequests}

\* The calls with their results.
CoordinateRuns ==
    {[outcome |-> call[2], request |-> call[1],
      result |-> optimize_route(call[1], CoordinateService(call[1]), call[2], call[3]),
      traffic |-> call[3]] :
        call \in CoordinateCalls}

OptimizeCoordinates ==
    \E run \in CoordinateRuns :
        optimize_from_coordinates(run.request, run.outcome, run.result)

Process ==
    \E job_id \in JobIds :
        \/ P_Query(job_id)
        \/ P_MarkInProgress(job_id)
        \/ P_Solve(job_id)
        \/ P_SaveRoute(job_id)
        \/ P_Finish(job_id)
        \/ P_Log(job_id)
        \/ H_Query(job_id)
        \/ H_Fail(job_id)

Next == CreateJob \/ OptimizeCoordinates \/ ReadJob \/ DeleteJob \/ Process

Spec == Init /\ [][Next]_vars

(***************************************************************************)
(* The service functions called directly: a second specification draws the *)
(* arguments of one call in its initial state and applies the function.    *)
(* The arguments are the ones the two endpoints can hand over.             *)
(***************************************************************************)
Call(fn, args) == [fn |-> fn, stage |-> "args", args |-> args, out |-> <<>>]

Done(call, out) == [fn |-> call.fn, stage |-> "done", args |-> call.args, out |-> out]

\* traffic data of a congested road and of a standstill
Congested == TrafficData(25, 60, "HIGH", 9)
Standstill == TrafficData(0, 60, "SEVERE", 9)

\* what the service can answer: speeds below and above the fallback speed, and a
\* congestion level the client does not know
LiveTraffic ==
    {TrafficData(speed, 60, level, 9) :
        speed \in {0, 10, 25, 40},
        level \in {"LOW", "MODERATE", "HIGH", "SEVERE", "UNKNOWN"}}

\* the service answers every request at a location with the same data
Live(traffic_data) == <<Some(traffic_data), Some(traffic_data), Some(traffic_data)>>

\* get_traffic_flow: each of the requests fails in transport or is answered
AttemptOutcomes == {None, Some(Congested), Some(Standstill)}

TrafficFlowCalls ==
    {Call("get_traffic_flow", [answers |-> <<a1, a2, a3>>]) :
        a1 \in AttemptOutcomes, a2 \in AttemptOutcomes, a3 \in AttemptOutcomes}

\* calculate_travel_time: from the mock base to a point 0 to 9 km away
TravelTimeCalls ==
    {Call("calculate_travel_time",
          [answers |-> answers, start_lat |-> MockBaseLat, start_lng |-> MockBaseLng,
           end_lat |-> MockBaseLat + a, end_lng |-> MockBaseLng + b]) :
        a \in {0, 1, 8}, b \in {0, 3},
        answers \in {Unreachable} \cup {Live(t) : t \in LiveTraffic}}

\* what the traffic service does during one construction of the matrix
ServiceCases(locations) ==
    {[i \in DOMAIN locations |-> Unreachable],
     [i \in DOMAIN locations |-> IF i = 1 THEN Live(Congested) ELSE Unreachable],
     [i \in DOMAIN locations |-> IF i = 0 THEN Live(Standstill) ELSE Live(Congested)]}

\* the depot a batch job can have: the default one or one 23 km to the
\* north-west, at the same distance from both mock orders
BatchDepots ==
    {[depot_latitude |-> DefaultDepotLat + d[1], depot_longitude |-> DefaultDepotLng + d[2]] :
        d \in {<<0, 0>>, <<16, 0 - 15>>}}

\* the constraints a batch request can carry
ServiceConstraints ==
    {[OptimizationConstraints(max_vehicles, vehicle_capacity_kg, optimization_criteria)
        EXCEPT !.max_route_duration_minutes = max_route_duration_minutes,
               !.max_stops_per_route = max_stops_per_route] :
        max_vehicles \in 1..MaxVehicles,
        max_stops_per_route \in {1, DefaultMaxStopsPerRoute},
        vehicle_capacity_kg \in {8000, DefaultVehicleCapacityKg},
        optimization_criteria \in {"MINIMIZE_DISTANCE", "MINIMIZE_TIME", "MINIMIZE_COST"},
        max_route_duration_minutes \in {60, DefaultMaxRouteDurationMinutes}}

\* the coordinate requests: one or two waypoints (the second at the
\* coordinates of the first or further out), loads of 0, 5.005 and 8 kg, a
\* capacity of 10 kg
WaypointLists ==
    {<<CoordinatePoint(MockBaseLat + 3, MockBaseLng + 3, 5, load_kg)>> :
        load_kg \in {0, 8000}}
    \cup {<<CoordinatePoint(MockBaseLat + 3, MockBaseLng + 3, 5, load_kg),
            CoordinatePoint(MockBaseLat + a, MockBaseLng + a, 5, load_kg)>> :
            load_kg \in {0, 5005, 8000}, a \in {1, 3}}

ServiceRequests ==
    {CoordinateOptimizationRequest(
         CoordinatePoint(MockBaseLat, MockBaseLng, 5, 0),
         waypoints, use_traffic, optimize_order, max_vehicles, 10000) :
        waypoints \in WaypointLists, use_traffic \in BOOLEAN,
        optimize_order \in BOOLEAN, max_vehicles \in 1..MaxVehicles}

\* the arguments the two endpoints hand to solve_vrp
SolveArguments ==
    {[locations |-> BuildLocations(depot, MaxOrders), use_traffic |-> use_traffic,
      constraints |-> constraints] :
        depot \in BatchDepots, constraints \in ServiceConstraints,
        use_traffic \in BOOLEAN}
    \cup {[locations |-> _convert_to_location_points(request),
            use_traffic |-> request.use_traffic,
            constraints |-> CoordinateConstraints(request)] :
            request \in {r \in ServiceRequests : UsesSolver(r)}}

MatrixCalls ==
    UNION {{Call("_create_distance_matrix",
                 [locations |-> a.locations, use_traffic |-> a.use_traffic,
                  service |-> service]) :
               service \in ServiceCases(a.locations)} :
           a \in SolveArguments}

SolveCalls ==
    UNION {UNION {{Call("solve_vrp",
                        [locations |-> a.locations, use_traffic |-> a.use_traffic,
                         service |-> service, constraints |-> a.constraints,
                         outcome |-> outcome]) :
                      outcome \in SolverOutcomes(a.locations, a.constraints,
                                      _create_distance_matrix(a.locations, a.use_traffic,
                                                              service))} :
                  service \in IF a.use_traffic THEN ServiceCases(a.locations)
                              ELSE {[i \in DOMAIN a.locations |-> Unreachable]}} :
           a \in SolveArguments}

\* the solver is not run for a request served in input order
NotUsed == [kind |-> "not used", paths |-> <<>>]

RouteOutcomes(request, service) ==
    IF UsesSolver(request)
    THEN LET locations == _convert_to_location_points(request)
         IN  SolverOutcomes(locations, CoordinateConstraints(request),
                            _create_distance_matrix(locations, request.use_traffic, service))
    ELSE {NotUsed}

\* how often optimize_route calls get_traffic_flow itself
RouteTrafficCalls(request, service, outcome) ==
    IF UsesSolver(request)
    THEN TrafficCalls(solve_vrp(_convert_to_location_points(request),
                                CoordinateConstraints(request), request.use_traffic,
                                service, outcome))
    ELSE Len(request.waypoints)

RouteCalls ==
    UNION {UNION {UNION {{Call("optimize_route",
                               [service |-> service, outcome |-> outcome,
                                request |-> request, traffic |-> traffic]) :
                             traffic \in [1..RouteTrafficCalls(request, service, outcome)
                                            -> {DefaultTrafficData, Congested}]} :
                         outcome \in RouteOutcomes(request, service)} :
                  service \in {[i \in 0..Len(request.waypoints) |-> Unreachable],
                               [i \in 0..Len(request.waypoints) |-> Live(Congested)]}} :
           request \in ServiceRequests}

ServiceCalls == TrafficFlowCalls \cup TravelTimeCalls \cup MatrixCalls \cup SolveCalls \cup RouteCalls

ServiceInit ==
    /\ jobs = [j \in {} |-> None]
    /\ routes = {}
    /\ stops = {}
    /\ next_job = 0
    /\ tasks = [j \in JobIds |-> NoTask]
    /\ faults = 0
    /\ response = NoResponse
    /\ service_call \in ServiceCalls

\* the call that is about to run
Pending(fn) == service_call.fn = fn /\ service_call.stage = "args"

Finish(out) ==
    /\ service_call' = Done(service_call, out)
    /\ UNCHANGED <<jobs, routes, stops, next_job, tasks, faults, response>>

CallGetTrafficFlow ==
    /\ Pending("get_traffic_flow")
    /\ Finish(get_traffic_flow(service_call.args.answers))

CallCalculateTravelTime ==
    /\ Pending("calculate_travel_time")
    /\ LET a == service_call.args
       IN  Finish(calculate_travel_time(a.start_lat, a.start_lng, a.end_lat, a.end_lng,
                                        a.answers))

CallCreateDistanceMatrix ==
    /\ Pending("_create_distance_matrix")
    /\ LET a == service_call.args
       IN  Finish(IF MatrixRaises(a.locations, a.use_traffic, a.service) THEN None
                  ELSE Some(_create_distance_matrix(a.locations, a.use_traffic, a.service)))

\* solve_vrp returns its result; `model` is what it handed to the solver, if it
\* got that far
CallSolveVrp ==
    /\ Pending("solve_vrp")
    /\ LET a == service_call.args
           built == NumLocations(a.locations) >= 2
                    /\ ~MatrixRaises(a.locations, a.use_traffic, a.service)
       IN  Finish([result |-> solve_vrp(a.locations, a.constraints, a.use_traffic,
                                        a.service, a.outcome),
                   model |-> IF built
                             THEN Some(RoutingModel(a.locations, a.constraints,
                                          _create_distance_matrix(a.locations, a.use_traffic,
                                                                  a.service)))
                             ELSE None])

CallOptimizeRoute ==
    /\ Pending("optimize_route")
    /\ LET a == service_call.args
       IN  Finish(optimize_route(a.request, a.service, a.outcome, a.traffic))

ServiceNext ==
    \/ CallGetTrafficFlow
    \/ CallCalculateTravelTime
    \/ CallCreateDistanceMatrix
    \/ CallSolveVrp
    \/ CallOptimizeRoute

ServiceSpec == ServiceInit /\ [][ServiceNext]_vars

(***************************************************************************)
(* Job lifecycle                                                           *)
(***************************************************************************)
DocumentedEdges ==
    {<<PENDING, IN_PROGRESS>>, <<IN_PROGRESS, COMPLETED>>, <<IN_PROGRESS, FAILED>>}

\* C1: the stored status of a job is PENDING when the job is created and
\* afterwards only changes along PENDING -> IN_PROGRESS, IN_PROGRESS ->
\* COMPLETED and IN_PROGRESS -> FAILED, whatever step of process_optimization
\* raises.
C1_OnlyDocumentedEdges ==
    [][\A j \in JobIds :
          /\ (~JobExists(j) /\ j \in DOMAIN jobs') => jobs'[j].job_status = PENDING
          /\ (JobExists(j) /\ j \in DOMAIN jobs'
                /\ jobs'[j].job_status # jobs[j].job_status)
             => <<jobs[j].job_status, jobs'[j].job_status>> \in DocumentedEdges]_vars

C3_CompletedHasTotals ==
    \A j \in DOMAIN jobs :
        jobs[j].job_status = COMPLETED
            => jobs[j].total_distance_km # None /\ jobs[j].completed_at # None

\* a job stored as COMPLETED together with its routes
C3_Witness ==
    \E j \in DOMAIN jobs : jobs[j].job_status = COMPLETED /\ RoutesOf(j) # {}

\* C4: every stored job whose status is FAILED has an error_message.
C4_FailedHasErrorMessage ==
    \A j \in DOMAIN jobs :
        jobs[j].job_status = FAILED => jobs[j].error_message # None

\* a job stored as FAILED with the solver's reason
C4_Witness ==
    \E j \in DOMAIN jobs :
        jobs[j].job_status = FAILED /\ jobs[j].error_message = Some(ErrNoSolution)

\* C5: when a step of process_optimization raises after the job was stored as
\* IN_PROGRESS, no further database fault strikes the except clause and the
\* job still exists when the task ends, the job is stored as FAILED with the
\* exception's text as error_message.
C5_RaisedAfterInProgressEndsFailed ==
    \A j \in JobIds :
        (tasks[j].pc = "done"
            /\ tasks[j].raised_at \in {"build", "save", "finish", "log"}
            /\ tasks[j].escaped # ExcOperationalError
            /\ JobExists(j))
        => (jobs[j].job_status = FAILED
                /\ jobs[j].error_message = Some(tasks[j].exc))

(***************************************************************************)
(* The job endpoints                                                       *)
(***************************************************************************)
\* the step is a call of `endpoint` that returned
Returned(endpoint) == response' # response /\ response'.endpoint = endpoint

\* C6: a create request that returns 200 has committed the job with status
\* PENDING and left its background task queued: no step of
\* process_optimization for the job has run when the response is returned;
\* and a task is only ever queued by such a request.
C6_CreatedPendingBeforeTaskRuns ==
    [][/\ (Returned("optimize_routes") /\ response'.status = 200)
            => /\ response'.job_id \in JobIds \ DOMAIN jobs
               /\ response'.job_id \in DOMAIN jobs'
               /\ jobs'[response'.job_id].job_status = PENDING
               /\ response'.body = PENDING
               /\ tasks[response'.job_id].pc = "idle"
               /\ tasks'[response'.job_id].pc = "queued"
               /\ tasks'[response'.job_id].assigned = <<>>
       /\ \A j \in JobIds :
             (tasks[j].pc = "idle" /\ tasks'[j].pc # "idle")
                => /\ tasks'[j].pc = "queued"
                   /\ Returned("optimize_routes")
                   /\ response'.status = 200
                   /\ response'.job_id = j]_vars

\* the create response was returned and the task has not started
C6_Witness ==
    /\ response.endpoint = "optimize_routes"
    /\ response.status = 200
    /\ JobExists(response.job_id)
    /\ jobs[response.job_id].job_status = PENDING
    /\ tasks[response.job_id].pc = "queued"

\* C7: a create request with more than 100 order ids is answered with a
\* client error, and jobs, routes, stops and the scheduled tasks are as
\* they were before it.
C7_TooManyOrdersRejected ==
    [][(Returned("optimize_routes") /\ response'.arg > MaxOrdersPerOptimization)
          => /\ response'.status \in 400..499
             /\ UNCHANGED <<jobs, routes, stops, next_job, tasks>>]_vars

\* a request with 101 order ids was rejected while a job is stored
C7_Witness ==
    /\ response.endpoint = "optimize_routes"
    /\ response.arg > MaxOrdersPerOptimization
    /\ response.status \in 400..499
    /\ DOMAIN jobs # {}

\* the delete request for job j can return 200
DeleteSucceeds(j) == delete_optimization_job(j) /\ response'.status = 200

C9_SolverFailureIsReported ==
    /\ \A j \in JobIds :
         LET t == tasks[j]
         IN  /\ (t.solution # None /\ ~t.solution[1].success)
                   => t.solution[1].error \in {ErrNoSolution, ErrSolverRaised}
             /\ t.exc \notin {ErrNoSolution, ErrSolverRaised}
             /\ (t.pc = "log" /\ ~t.solution[1].success /\ JobExists(j))
                   => /\ jobs[j].job_status = FAILED
                      /\ jobs[j].error_message = Some(t.solution[1].error)
                      /\ {r \in routes : r.job_id = j} = {}
                      /\ {s \in stops : s.route_id[1] = j} = {}
    /\ response.endpoint = "optimize_from_coordinates" =>
         /\ response.solver \in {"solution", "none", "raise"}
         /\ response.solver = "none" =>
               /\ response.status = 500
               /\ response.body = "Optimization failed: " \o ErrNoSolution
               /\ response.result = NoResult
         /\ response.solver = "raise" =>
               /\ response.status = 500
               /\ response.body = "Optimization failed: " \o ErrSolverRaised
               /\ response.result = NoResult
         /\ response.solver = "solution" =>
               /\ response.status = 200
               /\ response.result.success

\* a job stored as FAILED with the solver's reason and without routes, and a
\* coordinate request answered 500 with that reason
C9_Witness ==
    /\ \E j \in DOMAIN jobs :
          /\ jobs[j].job_status = FAILED
          /\ jobs[j].error_message = Some(ErrNoSolution)
          /\ tasks[j].exc = ""
          /\ RoutesOf(j) = {}
    /\ response.endpoint = "optimize_from_coordinates"
    /\ response.solver = "none"
    /\ response.status = 500
    /\ response.body = "Optimization failed: " \o ErrNoSolution

\* the stops of a result that carry order id k, as <<route, position>> pairs
StopsOfOrder(solution, k) ==
    {rp \in (1..Len(solution.routes)) \X (1..(MaxOrders + 2)) :
        /\ rp[2] <= Len(solution.routes[rp[1]].stops)
        /\ solution.routes[rp[1]].stops[rp[2]].order_id = Some(k)}

\* C10: in a successful result of solve_vrp every non-depot location is a
\* stop of exactly one route, exactly once; every route kept starts at the
\* depot and has a delivery; no more routes are kept than there are vehicles.
C10_EveryLocationRoutedOnce ==
    \A j \in JobIds :
        (tasks[j].solution # None /\ tasks[j].solution[1].success) =>
            LET solution == tasks[j].solution[1]
            IN  /\ \A k \in 1..tasks[j].order_count :
                      Cardinality(StopsOfOrder(solution, k)) = 1
                /\ Len(solution.routes) <= tasks[j].constraints[1].max_vehicles
                /\ \A r \in 1..Len(solution.routes) :
                      /\ Len(solution.routes[r].stops) >= 2
                      /\ solution.routes[r].stops[1].stop_type = "DEPOT"
                      /\ \A p \in 2..Len(solution.routes[r].stops) :
                            solution.routes[r].stops[p].stop_type = "DELIVERY"

\* two vehicles, two orders, one vehicle takes one order and the other the
\* other; and a result in which an unused vehicle's route was dropped
C10_Witness ==
    \E j \in JobIds :
        /\ tasks[j].solution # None
        /\ tasks[j].solution[1].success
        /\ tasks[j].order_count = 2
        /\ tasks[j].constraints[1].max_vehicles = 2
        /\ Len(tasks[j].solution[1].routes) = 1
        /\ Len(tasks[j].solution[1].routes[1].stops) = 3


(***************************************************************************)
(* Claims about the service functions, checked under ServiceSpec           *)
(***************************************************************************)
\* the call of fn has returned
Returned_(fn) == service_call.fn = fn /\ service_call.stage = "done"

\* solve_vrp has returned a successful result
Solved == Returned_("solve_vrp") /\ service_call.out.result.success

\* C11: in every successful solve_vrp result, the total_load_kg of every
\* route is at most constraints.vehicle_capacity_kg, also for loads that are
\* not whole multiples of 0.01 kg.
C11_LoadWithinCapacity ==
    Solved =>
        \A r \in DOMAIN service_call.out.result.routes :
            service_call.out.result.routes[r].total_load_kg
                <= service_call.args.constraints.vehicle_capacity_kg

\* The scenario of C11: capacity 10 kg, two stops of 8 kg each: with one
\* vehicle the only outcomes are failures, with two vehicles every solution
\* has two routes of 8 kg.
C11_EightAndEight ==
    (/\ Returned_("solve_vrp")
     /\ service_call.args.constraints.vehicle_capacity_kg = 10000
     /\ \A k \in DOMAIN service_call.args.locations \ {0} :
            service_call.args.locations[k].load_kg = 8000
     /\ NumLocations(service_call.args.locations) = 3)
    => IF service_call.args.constraints.max_vehicles = 1
       THEN ~service_call.out.result.success
       ELSE service_call.out.result.success =>
                /\ Len(service_call.out.result.routes) = 2
                /\ \A r \in 1..2 : service_call.out.result.routes[r].total_load_kg = 8000

\* _create_distance_matrix has returned a matrix
MatrixBuilt == Returned_("_create_distance_matrix") /\ service_call.out # None

\* C12: for every location list of size >= 2 the matrix is square, its
\* entries are non-negative integers, its diagonal is 0, and every
\* off-diagonal entry is at least 60 in offline mode and at least 1 in
\* traffic mode, also between locations with identical coordinates.
C12_MatrixShape ==
    (MatrixBuilt /\ NumLocations(service_call.args.locations) >= 2) =>
        LET matrix == service_call.out[1]
            nodes == DOMAIN service_call.args.locations
        IN  /\ DOMAIN matrix = nodes
            /\ \A i \in nodes :
                  /\ DOMAIN matrix[i] = nodes
                  /\ \A j \in nodes :
                        /\ matrix[i][j] \in Nat
                        /\ i = j => matrix[i][j] = 0
                        /\ i # j =>
                              IF service_call.args.use_traffic
                              THEN matrix[i][j] >= 1
                              ELSE matrix[i][j] >= 60

\* two locations with identical coordinates in a traffic-mode matrix
C12_Witness ==
    /\ MatrixBuilt
    /\ service_call.args.use_traffic
    /\ \E i, j \in DOMAIN service_call.args.locations :
          /\ i # j
          /\ service_call.args.locations[i].latitude = service_call.args.locations[j].latitude
          /\ service_call.args.locations[i].longitude = service_call.args.locations[j].longitude
          /\ service_call.out[1][i][j] = 60

\* the traffic service is unreachable for every request of the call
AllUnreachable ==
    \A i \in DOMAIN service_call.args.service : service_call.args.service[i] = Unreachable

\* C13: when the traffic service is unreachable for every call,
\* get_traffic_flow does not raise and returns the default {50, 60, LOW,
\* 0.5}, calculate_travel_time uses that default, and solve_vrp in traffic
\* mode returns a successful result when the solver finds a solution.
C13_UnreachableDegradesToDefault ==
    /\ (Returned_("get_traffic_flow") /\ service_call.args.answers = Unreachable) =>
          /\ ~service_call.out.raised
          /\ service_call.out.value = TrafficData(50, 60, "LOW", 5)
    /\ (Returned_("calculate_travel_time") /\ service_call.args.answers = Unreachable) =>
          LET distance == _calculate_distance(service_call.args.start_lat,
                                              service_call.args.start_lng,
                                              service_call.args.end_lat,
                                              service_call.args.end_lng)
          IN  service_call.out = Max(1, (60 * distance) \div (50 * 1000))
    /\ (/\ Returned_("solve_vrp")
        /\ service_call.args.use_traffic
        /\ AllUnreachable
        /\ service_call.args.outcome.kind = "solution") =>
          /\ service_call.out.result.success
          /\ service_call.out.result.error = ""

\* solve_vrp in traffic mode returned routes although no request to the
\* traffic service got through
C13_Witness ==
    /\ Solved
    /\ service_call.args.use_traffic
    /\ AllUnreachable
    /\ Len(service_call.out.result.routes) >= 1

\* the first request of a get_traffic_flow call that is answered, 0 if none is
FirstAnswered(answers) ==
    IF \E k \in 1..MaxAttempts : answers[k] # None
    THEN CHOOSE k \in 1..MaxAttempts :
            answers[k] # None /\ \A h \in 1..(k - 1) : answers[h] = None
    ELSE 0

\* C14: on a transport failure get_traffic_flow repeats the request, up to
\* 3 attempts in total; it returns the data of the first attempt that is
\* answered, and the default only after all 3 attempts failed.
C14_RetriesBeforeDefault ==
    Returned_("get_traffic_flow") =>
        LET k == FirstAnswered(service_call.args.answers)
        IN  IF k = 0
            THEN /\ service_call.out.value = DefaultTrafficData
                 /\ service_call.out.attempts = 3
            ELSE /\ service_call.out.value = service_call.args.answers[k][1]
                 /\ service_call.out.attempts = k

\* optimize_route has returned a response for a request it handed to the solver
Optimized ==
    /\ Returned_("optimize_route")
    /\ UsesSolver(service_call.args.request)
    /\ service_call.out.ok

\* C15: in optimize mode optimized_sequence holds, for the k-th visit of
\* the route, the index in request.waypoints of the waypoint visited, and
\* waypoints_in_order[k] is that waypoint: its coordinates are those of
\* route_segments[k].to_location.
C15_SequenceFollowsRoute ==
    Optimized =>
        LET r == service_call.out.value
            waypoints == service_call.args.request.waypoints
        IN  /\ Len(r.optimized_sequence) = Len(r.route_segments)
            /\ Len(r.waypoints_in_order) = Len(r.route_segments)
            /\ \A k \in 1..Len(r.route_segments) :
                  /\ r.waypoints_in_order[k] = waypoints[r.optimized_sequence[k] + 1]
                  /\ r.waypoints_in_order[k].lat = r.route_segments[k].to_location.lat
                  /\ r.waypoints_in_order[k].lng = r.route_segments[k].to_location.lng

\* C16: a coordinate request with optimize_order = false, or with exactly
\* one waypoint, is answered without the solver: there are len(waypoints)
\* segments, segment i goes from point i to point i+1 of [start] +
\* waypoints, optimized_sequence is 0..len(waypoints)-1, waypoints_in_order
\* is the input and summary.optimization_applied is false.
C16_SequentialRoute ==
    (/\ Returned_("optimize_route")
     /\ \/ ~service_call.args.request.optimize_order
        \/ Len(service_call.args.request.waypoints) = 1) =>
        LET request == service_call.args.request
            r == service_call.out.value
            all_points == <<request.start>> \o request.waypoints
            n == Len(request.waypoints)
        IN  /\ service_call.out.ok
            /\ service_call.args.outcome.kind = "not used"
            /\ Len(r.route_segments) = n
            /\ \A i \in 1..n :
                  /\ r.route_segments[i].from_location = all_points[i]
                  /\ r.route_segments[i].to_location = all_points[i + 1]
            /\ Len(r.optimized_sequence) = n
            /\ \A k \in 1..n : r.optimized_sequence[k] = k - 1
            /\ r.waypoints_in_order = request.waypoints
            /\ r.summary.optimization_applied = FALSE

\* two waypoints at different places answered in input order
C16_Witness ==
    /\ Returned_("optimize_route")
    /\ ~service_call.args.request.optimize_order
    /\ Len(service_call.args.request.waypoints) = 2
    /\ service_call.args.request.waypoints[1] # service_call.args.request.waypoints[2]
    /\ service_call.out.ok
    /\ Len(service_call.out.value.route_segments) = 2

\* the traffic data a calculate_travel_time call works with
ReportedTraffic ==
    IF service_call.args.answers[1] = None THEN TrafficData(50, 60, "LOW", 5)
    ELSE service_call.args.answers[1][1]

\* C17: calculate_travel_time returns max(1, floor(floor(distance_km / s *
\* 60) * m)) with s = max(reported speed, 30) and m = 1.0, 1.2, 1.5, 2.0
\* for LOW, MODERATE, HIGH, SEVERE (1.0 otherwise): a reported speed
\* strictly between 0 and 30 km/h is replaced by 30; the result is >= 1.
C17_TravelTimeFormula ==
    Returned_("calculate_travel_time") =>
        LET distance == _calculate_distance(service_call.args.start_lat,
                                            service_call.args.start_lng,
                                            service_call.args.end_lat,
                                            service_call.args.end_lng)
            s == Max(ReportedTraffic.current_speed_kmph, 30)
            level == ReportedTraffic.congestion_level
            m == CASE level = "LOW" -> 10
                   [] level = "MODERATE" -> 12
                   [] level = "HIGH" -> 15
                   [] level = "SEVERE" -> 20
                   [] OTHER -> 10
            base == (60 * distance) \div (1000 * s)
        IN  /\ service_call.out = Max(1, (base * m) \div 10)
            /\ service_call.out >= 1

\* The same formula with the speed the code uses: only a reported speed of
\* exactly 0 is replaced by 30.
C17_OnlyZeroSpeedReplaced ==
    Returned_("calculate_travel_time") =>
        LET distance == _calculate_distance(service_call.args.start_lat,
                                            service_call.args.start_lng,
                                            service_call.args.end_lat,
                                            service_call.args.end_lng)
            reported == ReportedTraffic.current_speed_kmph
            s == IF reported = 0 THEN 30 ELSE reported
            level == ReportedTraffic.congestion_level
            m == CASE level = "LOW" -> 10
                   [] level = "MODERATE" -> 12
                   [] level = "HIGH" -> 15
                   [] level = "SEVERE" -> 20
                   [] OTHER -> 10
            base == (60 * distance) \div (1000 * s)
        IN  /\ service_call.out = Max(1, (base * m) \div 10)
            /\ service_call.out >= 1

\* a reported speed of 10 km/h is used as it is: 2.9 km take 17 minutes,
\* not the 5 minutes they take at 30 km/h
C17_Witness ==
    /\ Returned_("calculate_travel_time")
    /\ ReportedTraffic.current_speed_kmph = 10
    /\ ReportedTraffic.congestion_level = "LOW"
    /\ service_call.args.end_lat = service_call.args.start_lat
    /\ service_call.args.end_lng = service_call.args.start_lng + 3
    /\ service_call.out = 17

\* C18: the matrix is symmetric, matrix[i][j] = matrix[j][i] for every i
\* and j, in offline mode and in traffic mode, also when the traffic
\* estimate at location i differs from the estimate at location j.
C18_MatrixSymmetric ==
    MatrixBuilt =>
        \A i, j \in DOMAIN service_call.args.locations :
            service_call.out[1][i][j] = service_call.out[1][j][i]

\* the traffic estimate calculate_travel_time gets at location i
EstimateAt(i) == get_traffic_flow(service_call.args.service[i]).value

\* C18 as amended: the matrix is symmetric in offline mode; in traffic
\* mode the entry [i][j] is computed with the traffic estimate at i, and
\* the two directions agree whenever the estimates at i and j have the
\* same speed and congestion level.
C18_SymmetricForEqualEstimates ==
    MatrixBuilt =>
        \A i, j \in DOMAIN service_call.args.locations :
            (\/ ~service_call.args.use_traffic
             \/ /\ EstimateAt(i).current_speed_kmph = EstimateAt(j).current_speed_kmph
                /\ EstimateAt(i).congestion_level = EstimateAt(j).congestion_level)
            => service_call.out[1][i][j] = service_call.out[1][j][i]

\* a traffic-mode matrix with the same estimate at two locations more than
\* a minute apart, and another pair with different estimates whose two
\* directions differ
C18_Witness ==
    /\ MatrixBuilt
    /\ service_call.args.use_traffic
    /\ \E i, j \in DOMAIN service_call.args.locations :
          /\ i # j
          /\ EstimateAt(i) = EstimateAt(j)
          /\ service_call.out[1][i][j] = service_call.out[1][j][i]
          /\ service_call.out[1][i][j] > 60
    /\ \E i, j \in DOMAIN service_call.args.locations :
          /\ EstimateAt(i) # EstimateAt(j)
          /\ service_call.out[1][i][j] # service_call.out[1][j][i]

\* The node of the routing model a stop of a result stands for: the depot
\* for the first stop, otherwise the location the stop was copied from.
\* NodesOf gives the nodes after the depot of a route of the result, in
\* visiting order, from the paths the solver returned.
NodesOf(r) ==
    service_call.args.outcome.paths[service_call.out.result.routes[r].vehicle_id]

\* C19: the distance dimension starts at zero for every vehicle, has slack
\* 1800 and upper bound max_route_duration_minutes * 60 for
\* MINIMIZE_DISTANCE and * 100 for MINIMIZE_TIME and MINIMIZE_COST; for
\* every route of a successful result the matrix costs along the route,
\* the return arc to the depot included, sum to at most that bound.
C19_DistanceDimension ==
    (Returned_("solve_vrp") /\ service_call.out.model # None) =>
        LET constraints == service_call.args.constraints
            model == service_call.out.model[1]
            bound == IF constraints.optimization_criteria = "MINIMIZE_DISTANCE"
                     THEN constraints.max_route_duration_minutes * 60
                     ELSE constraints.max_route_duration_minutes * 100
        IN  /\ model.distance_dimension.fix_start_cumul_to_zero
            /\ model.distance_dimension.slack_max = 1800
            /\ model.distance_dimension.capacity = bound
            /\ service_call.out.result.success =>
                  \A r \in DOMAIN service_call.out.result.routes :
                      LET tour == <<0>> \o NodesOf(r) \o <<0>>
                      IN  SumSeq([p \in 1..(Len(tour) - 1) |->
                                     model.matrix[tour[p]][tour[p + 1]]]) <= bound

\* a successful result under a bound of 60 minutes * 60 that rules out the
\* single tour over both stops: two routes, each within the bound
C19_Witness ==
    /\ Solved
    /\ service_call.args.constraints.optimization_criteria = "MINIMIZE_DISTANCE"
    /\ service_call.args.constraints.max_route_duration_minutes = 60
    /\ Len(service_call.out.result.routes) = 2
    /\ TourCost(service_call.out.model[1].matrix, <<1, 2>>) > 3600
    /\ \A r \in 1..2 : TourCost(service_call.out.model[1].matrix, NodesOf(r)) > 1800

\* solve_vrp has handed a routing model to the solver
ModelBuilt == Returned_("solve_vrp") /\ service_call.out.model # None

\* C20: the capacity dimension is added if and only if some location has
\* load_kg > 0; the demand of node k is load_kg[k] * 100 (0 for the depot),
\* each of the max_vehicles vehicles has capacity vehicle_capacity_kg *
\* 100, the slack is zero and the cumulative value starts at zero; when
\* all loads are zero there is no capacity constraint.  Loads are in units
\* of 0.001 kg here, so load_kg * 100 is a tenth of the load.
C20_CapacityDimension ==
    ModelBuilt =>
        LET locations == service_call.args.locations
            constraints == service_call.args.constraints
            capacity == service_call.out.model[1].capacity_dimension
        IN  /\ capacity # None <=> \E k \in DOMAIN locations : locations[k].load_kg > 0
            /\ capacity # None =>
                  /\ DOMAIN capacity[1].demands = DOMAIN locations
                  /\ \A k \in DOMAIN locations :
                        10 * capacity[1].demands[k] = locations[k].load_kg
                  /\ capacity[1].demands[0] = 0
                  /\ DOMAIN capacity[1].vehicle_capacities = 0..(constraints.max_vehicles - 1)
                  /\ \A v \in DOMAIN capacity[1].vehicle_capacities :
                        10 * capacity[1].vehicle_capacities[v] = constraints.vehicle_capacity_kg
                  /\ capacity[1].slack_max = 0
                  /\ capacity[1].fix_start_cumul_to_zero

\* What the code does hand over: the demand of node k and the capacity of a
\* vehicle are the products by 100 truncated to an integer, everything else
\* as C20 states.
C20_TruncatedDemand ==
    ModelBuilt =>
        LET locations == service_call.args.locations
            constraints == service_call.args.constraints
            capacity == service_call.out.model[1].capacity_dimension
        IN  /\ capacity # None <=> \E k \in DOMAIN locations : locations[k].load_kg > 0
            /\ capacity # None =>
                  /\ DOMAIN capacity[1].demands = DOMAIN locations
                  /\ \A k \in DOMAIN locations :
                        /\ 10 * capacity[1].demands[k] <= locations[k].load_kg
                        /\ 10 * (capacity[1].demands[k] + 1) > locations[k].load_kg
                  /\ capacity[1].demands[0] = 0
                  /\ DOMAIN capacity[1].vehicle_capacities = 0..(constraints.max_vehicles - 1)
                  /\ \A v \in DOMAIN capacity[1].vehicle_capacities :
                        capacity[1].vehicle_capacities[v] = constraints.vehicle_capacity_kg \div 10
                  /\ capacity[1].slack_max = 0
                  /\ capacity[1].fix_start_cumul_to_zero

\* C21: in every decoded solution a vehicle whose path visits only the
\* depot produces no route; every route has at least two stops, its first
\* stop has stop_sequence 0 and is the depot (location 0, stop_type DEPOT,
\* travel time and distance from previous 0), every later stop has
\* stop_type DELIVERY, and the stop_sequence values are 0, 1, ...,
\* len(stops) - 1 in visiting order.
C21_RoutesStartAtDepot ==
    Solved =>
        LET result == service_call.out.result
            paths == service_call.args.outcome.paths
            depot == service_call.args.locations[0]
        IN  /\ \A v \in DOMAIN paths :
                  paths[v] = <<>> =>
                      ~\E r \in DOMAIN result.routes : result.routes[r].vehicle_id = v
            /\ \A r \in DOMAIN result.routes :
                  LET route == result.routes[r].stops
                  IN  /\ Len(route) >= 2
                      /\ route[1].stop_sequence = 0
                      /\ route[1].stop_type = "DEPOT"
                      /\ route[1].order_id = depot.order_id
                      /\ route[1].latitude = depot.latitude
                      /\ route[1].longitude = depot.longitude
                      /\ route[1].travel_time_from_previous = 0
                      /\ route[1].distance_from_previous = 0
                      /\ \A p \in 2..Len(route) : route[p].stop_type = "DELIVERY"
                      /\ \A p \in 1..Len(route) : route[p].stop_sequence = p - 1

\* one vehicle stays at the depot, the other visits two stops
C21_Witness ==
    /\ Solved
    /\ \E v \in DOMAIN service_call.args.outcome.paths :
          service_call.args.outcome.paths[v] = <<>>
    /\ Len(service_call.out.result.routes) = 1
    /\ Len(service_call.out.result.routes[1].stops) = 3

\* C22: for every stop after the depot stop, travel_time_from_previous is
\* the matrix entry from the previously visited location to this one,
\* floor-divided by 60, and distance_from_previous is that number of
\* minutes * 0.8 km (800 m).
C22_TravelFromPrevious ==
    Solved =>
        \A r \in DOMAIN service_call.out.result.routes :
            LET route == service_call.out.result.routes[r].stops
                walk == <<0>> \o NodesOf(r)
                matrix == service_call.out.model[1].matrix
            IN  \A p \in 2..Len(route) :
                    /\ route[p].travel_time_from_previous
                           = matrix[walk[p - 1]][walk[p]] \div 60
                    /\ route[p].distance_from_previous
                           = (matrix[walk[p - 1]][walk[p]] \div 60) * 800

\* a route over two deliveries whose second leg is not a whole number of
\* minutes and differs from the leg depot -> second delivery
C22_Witness ==
    /\ Solved
    /\ \E r \in DOMAIN service_call.out.result.routes :
          LET walk == <<0>> \o NodesOf(r)
              matrix == service_call.out.model[1].matrix
          IN  /\ Len(walk) = 3
              /\ matrix[walk[2]][walk[3]] % 60 # 0
              /\ matrix[walk[2]][walk[3]] \div 60 # matrix[0][walk[3]] \div 60
              /\ service_call.out.result.routes[r].stops[3].travel_time_from_previous > 0

\* C25: in optimize mode, for max_vehicles from 1 to 10, the response
\* accounts for every waypoint of the request: optimized_sequence is a
\* permutation of 0 .. len(waypoints) - 1 and waypoints_in_order contains
\* each waypoint exactly once, also when the solver distributes the
\* waypoints over more than one vehicle.
C25_EveryWaypointAccounted ==
    Optimized =>
        LET r == service_call.out.value
            waypoints == service_call.args.request.waypoints
            n == Len(waypoints)
        IN  /\ Len(r.optimized_sequence) = n
            /\ {r.optimized_sequence[k] : k \in 1..n} = 0..(n - 1)
            /\ Len(r.waypoints_in_order) = n
            /\ \E perm \in [1..n -> 1..n] :
                  /\ \A i, j \in 1..n : perm[i] = perm[j] => i = j
                  /\ \A k \in 1..n : r.waypoints_in_order[k] = waypoints[perm[k]]

\* the travel_time_from_previous of the stops of a route, added up
LegMinutes(route) ==
    SumSeq([p \in 1..Len(route.stops) |-> route.stops[p].travel_time_from_previous])

\* C26: for every decoded route, total_distance_minutes is the sum of the
\* matrix costs over consecutive visited stops (the arc back to the depot
\* excluded) floor-divided by 60; it is at least the sum of the stops'
\* travel_time_from_previous, exceeds that sum by less than the number of
\* legs, and equals it when every matrix entry is a multiple of 60, which
\* is the case in traffic mode; total_distance_km is total_distance_minutes
\* * 0.8 km (800 m), and the summary totals are the sums of the route
\* totals.
C26_RouteTotals ==
    Solved =>
        LET result == service_call.out.result
            matrix == service_call.out.model[1].matrix
            whole == \A i, j \in DOMAIN matrix : matrix[i][j] % 60 = 0
        IN  /\ service_call.args.use_traffic => whole
            /\ \A r \in DOMAIN result.routes :
                  LET route == result.routes[r]
                      walk == <<0>> \o NodesOf(r)
                      legs == Len(walk) - 1
                      cost == SumSeq([p \in 1..legs |-> matrix[walk[p]][walk[p + 1]]])
                  IN  /\ route.total_distance_minutes = cost \div 60
                      /\ route.total_distance_minutes >= LegMinutes(route)
                      /\ route.total_distance_minutes - LegMinutes(route) < legs
                      /\ whole => route.total_distance_minutes = LegMinutes(route)
                      /\ route.total_distance_km = route.total_distance_minutes * 800
            /\ result.summary.total_time_minutes
                   = SumSeq([r \in DOMAIN result.routes |->
                                result.routes[r].total_distance_minutes])
            /\ result.summary.total_distance_km
                   = SumSeq([r \in DOMAIN result.routes |->
                                result.routes[r].total_distance_km])

\* a route of two legs whose remainders add up to a minute: the route
\* total is larger than the sum of its legs
C26_Witness ==
    /\ Solved
    /\ \E r \in DOMAIN service_call.out.result.routes :
          /\ Len(service_call.out.result.routes[r].stops) = 3
          /\ service_call.out.result.routes[r].total_distance_minutes
                 = LegMinutes(service_call.out.result.routes[r]) + 1

\* C29: every route of a successful solve_vrp result contains at most
\* constraints.max_stops_per_route stops after the depot stop.
C29_StopsPerRoute ==
    Solved =>
        \A r \in DOMAIN service_call.out.result.routes :
            Len(service_call.out.result.routes[r].stops) - 1
                <= service_call.args.constraints.max_stops_per_route

\* the background task of job_id has built its location list from the job
\* row it holds
Located(job_id) ==
    /\ tasks[job_id].pc \in {"save", "finish"}
    /\ tasks[job_id].job # None
    /\ tasks[job_id].locations # <<>>

\* C23: in background processing the location list has the job's depot at
\* index 0, with service time 0 and load 0, and the order with index i
\* (from 0, in request order) at (depot_latitude + 0.01 * i,
\* depot_longitude + 0.01 * i), for every depot the job was created with.
C23_LocationsFromDepot ==
    \A job_id \in JobIds :
        Located(job_id) =>
            LET t == tasks[job_id]
                job == t.job[1]
            IN  /\ DOMAIN t.locations = 0..t.order_count
                /\ t.locations[0]
                       = LocationPoint(None, job.depot_latitude, job.depot_longitude, 0, 0)
                /\ \A k \in 1..t.order_count :
                      /\ t.locations[k].order_id = Some(k)
                      /\ t.locations[k].latitude = job.depot_latitude + (k - 1)
                      /\ t.locations[k].longitude = job.depot_longitude + (k - 1)

\* C27: a job is created with exactly the depot coordinates the request's
\* constraints supply, and with the configured default only for a
\* coordinate that is absent (null): a supplied 0.0 is stored as 0.0; and
\* process_optimization uses the stored coordinates as the depot.
C27_DepotAsSupplied ==
    /\ [][\A order_count \in OrderCounts, constraints \in BatchConstraints,
              depot \in RequestDepots :
            (/\ optimize_routes(order_count, constraints, depot[1], depot[2], FALSE)
             /\ next_job' = next_job + 1) =>
                /\ jobs'[next_job'].depot_latitude
                       = IF depot[1] = None THEN DefaultDepotLat ELSE depot[1][1]
                /\ jobs'[next_job'].depot_longitude
                       = IF depot[2] = None THEN DefaultDepotLng ELSE depot[2][1]]_vars
    /\ [](\A job_id \in JobIds :
             Located(job_id) =>
                 /\ tasks[job_id].locations[0].latitude
                        = tasks[job_id].job[1].depot_latitude
                 /\ tasks[job_id].locations[0].longitude
                        = tasks[job_id].job[1].depot_longitude)

\* C24: under every interleaving of delete_optimization_job with the steps
\* of process_optimization for the same job, each stored route belongs to a
\* stored job and each stored stop to a stored route; once the job is
\* deleted, no step stores a route or a stop for it or stores the job
\* again.
C24_ReferentialIntegrity ==
    /\ [](/\ \A r \in routes : r.job_id \in DOMAIN jobs
          /\ \A s \in stops : \E r \in routes : r.route_id = s.route_id)
    /\ [][\A job_id \in JobIds :
            (job_id <= next_job /\ ~JobExists(job_id)) =>
                /\ job_id \notin DOMAIN jobs'
                /\ \A r \in routes' : r.job_id # job_id
                /\ \A s \in stops' : s.route_id[1] # job_id]_vars

\* the job was deleted after the solver had produced routes and before the
\* first of them was inserted; the task has ended and nothing is stored
C24_Witness ==
    /\ next_job = 1
    /\ ~JobExists(1)
    /\ tasks[1].raised_at = "save"
    /\ tasks[1].pc = "done"
    /\ routes = {}
    /\ stops = {}

\* C28: with use_traffic = false the response of optimize_route does not
\* depend on the traffic service: a second run on the same request, with
\* the same solver outcome and any other answers of the traffic service
\* (another speed or congestion level, or no answer at all), returns the
\* same response, in the optimize mode and in the sequential mode.
C28_TrafficIndependent ==
    (Returned_("optimize_route") /\ ~service_call.args.request.use_traffic) =>
        \A service \in {[i \in DOMAIN service_call.args.service |-> Unreachable],
                        [i \in DOMAIN service_call.args.service |-> Live(Congested)]},
           traffic \in [DOMAIN service_call.args.traffic -> {DefaultTrafficData, Congested}] :
            optimize_route(service_call.args.request, service,
                           service_call.args.outcome, traffic) = service_call.out

=============================================================================
